---------------------------- MODULE Spec2Model ----------------------------
(***************************************************************************)
(* State-machine model of the risk-analysis pipeline of the attorney       *)
(* matching service (services/risk_analysis_service.py and the             *)
(* collaborators it calls).                                                *)
(*                                                                         *)
(* Text that the code inspects character by character (document content,   *)
(* attorney identifiers, titles) is a sequence of one-character strings.   *)
(* Text that the code only copies is a TLA+ string.  Python's None is the  *)
(* string None.                                                            *)
(***************************************************************************)
EXTENDS Integers, Sequences, FiniteSets, TLC

VARIABLES
    attorneyDB,       \* attorney container, in the order a query returns it
    publicDB,         \* public-source container, in query order
    internalIndex,    \* ranked hits of the internal-documents index
    historicalIndex,  \* ranked hits of the historical-engagements index
    pc,               \* position of the running analyze_company_risks call
    request,          \* RiskAnalysisRequest
    searchFault,      \* per collection: hits iterated before the search failed, -1 if none
    rag_context,      \* {"internal": [...], "historical": [...]}
    queries,          \* log of the record-store queries the run has issued
    public_sources,   \* result of _get_relevant_public_sources
    prompt,           \* result of _build_risk_analysis_prompt
    llm_reply,        \* what the generative-model call did
    risks,            \* first component of _get_llm_risk_analysis' tuple
    references,       \* second component
    confidence,       \* third component
    attorney_scores,  \* local list of _find_matching_attorneys after scoring
    attorneys,        \* result of _find_matching_attorneys
    email_template,   \* result of _generate_email_template
    response,         \* the RiskAnalysisResponse returned
    error,            \* exception that left analyze_company_risks, or None
    http_response,    \* what the endpoint analyze_company_risk answers
    previous,         \* an earlier invocation: what it was given, what it answered
    calls,            \* attorney-ingestion calls in flight, per client
    tasks             \* enrichment background tasks, per task slot

vars == <<attorneyDB, publicDB, internalIndex, historicalIndex, pc, request,
          searchFault, rag_context, queries, public_sources, prompt, llm_reply,
          risks, references, confidence, attorney_scores, attorneys,
          email_template, response, error, http_response, previous, calls,
          tasks>>

stores == <<attorneyDB, publicDB, internalIndex, historicalIndex>>

None == "None"

-----------------------------------------------------------------------------
(* Sequence helpers (Python slicing, comprehension, in).                   *)

Min(a, b) == IF a < b THEN a ELSE b

\* s[:n]
Take(s, n) == SubSeq(s, 1, Min(Len(s), n))

Range(s) == {s[i] : i \in 1..Len(s)}

RECURSIVE Concat(_)
Concat(ss) == IF ss = <<>> THEN <<>> ELSE Head(ss) \o Concat(Tail(ss))

RECURSIVE SumSeq(_)
SumSeq(s) == IF s = <<>> THEN 0 ELSE Head(s) + SumSeq(Tail(s))

\* sequences over S of length at most n
RECURSIVE SeqsUpTo(_, _)
SeqsUpTo(S, n) == IF n = 0 THEN {<<>>} ELSE SeqsUpTo(S, n - 1) \cup [1..n -> S]

\* sequences over S of length at most n, without repetition
DistinctSeqs(S, n) ==
    {s \in SeqsUpTo(S, n) : \A i, j \in 1..Len(s) : i # j => s[i] # s[j]}

-----------------------------------------------------------------------------
(* Attorney identifiers: "ATT-" and 8 characters of an upper-cased uuid    *)
(* (attorney_service.py:20).  The pattern of the historical scan is        *)
(* ATT-[A-Z0-9]{8}.                                                         *)

IdLen == 8

Prefix == <<"A", "T", "T", "-">>

UpperAlnum ==
    {"A", "B", "C", "D", "E", "F", "G", "H", "I", "J", "K", "L", "M",
     "N", "O", "P", "Q", "R", "S", "T", "U", "V", "W", "X", "Y", "Z",
     "0", "1", "2", "3", "4", "5", "6", "7", "8", "9"}

\* the pattern matches s at position i
MatchAt(s, i) ==
    /\ i + Len(Prefix) + IdLen - 1 <= Len(s)
    /\ SubSeq(s, i, i + Len(Prefix) - 1) = Prefix
    /\ \A k \in 0..(IdLen - 1) : s[i + Len(Prefix) + k] \in UpperAlnum

\* re.findall(r'ATT-[A-Z0-9]{8}', s): leftmost matches, scanned left to
\* right, the scan resuming after the end of each match
RECURSIVE FindAllFrom(_, _)
FindAllFrom(s, i) ==
    IF i > Len(s) THEN <<>>
    ELSE IF MatchAt(s, i)
         THEN <<SubSeq(s, i, i + Len(Prefix) + IdLen - 1)>>
                  \o FindAllFrom(s, i + Len(Prefix) + IdLen)
         ELSE FindAllFrom(s, i + 1)

FindAll(s) == FindAllFrom(s, 1)

\* the historical_attorney_ids set built from rag_context['historical']
HistoricalAttorneyIds(rag) ==
    UNION {Range(FindAll(rag.historical[i].content)) : i \in 1..Len(rag.historical)}

-----------------------------------------------------------------------------
(* Attorney profiles as stored by AttorneyService.                         *)

ID1 == <<"A", "T", "T", "-", "A", "B", "1", "2", "C", "D", "3", "4">>
ID2 == <<"A", "T", "T", "-", "E", "F", "5", "6", "G", "H", "7", "8">>
ID3 == <<"A", "T", "T", "-", "0", "0", "0", "0", "0", "A", "T", "T">>
ID4 == <<"A", "T", "T", "-", "9", "Z", "9", "Z", "9", "Z", "9", "Z">>
ID5 == <<"A", "T", "T", "-", "C", "0", "F", "F", "E", "E", "0", "0">>
ID6 == <<"A", "T", "T", "-", "7", "7", "7", "7", "Q", "Q", "Q", "Q">>

PA(area, proficiency, years) ==
    [area |-> area, proficiency |-> proficiency, years_in_practice |-> years]

Attorney(id, name, seniority, years, pas) ==
    [attorney_id |-> id, name |-> name, email |-> name,
     seniority |-> seniority, years_of_experience |-> years,
     practice_areas |-> pas]

Att1 == Attorney(ID1, "ann", "Partner", 25, <<PA("Tax", "Expert", 20)>>)
Att2 == Attorney(ID2, "bob", "Senior Partner", 20, <<PA("Tax", "Advanced", 9)>>)
Att3 == Attorney(ID3, "cyd", "Associate", 3,
                 <<PA("Tax", "Beginner", 1), PA("Compliance", "Expert", 3),
                   PA("Tax", "Intermediate", 2)>>)
Att4 == Attorney(ID4, "dee", "Of Counsel", 0, <<>>)
Att5 == Attorney(ID5, "eli", "Senior Associate", 10,
                 <<PA("Compliance", "Master", 10)>>)

\* area: str = Field(..., max_length=100) admits the empty string
Att6 == Attorney(ID6, "fay", "Partner", 12, <<PA("", "Advanced", 4)>>)

CandidateAttorneys == {Att1, Att2, Att3, Att4, Att5}

\* a store in which one attorney has an entry with the empty area
BlankAreaAttorneys == {Att1, Att2, Att3, Att4, Att6}

-----------------------------------------------------------------------------
(* AttorneyService.get_attorneys and the ranking of                        *)
(* RiskAnalysisService._find_matching_attorneys.                           *)

\* top_n as a budget that earlier invocations use up
top_nAfterEarlierCalls == IF previous.served THEN 1 ELSE 3

top_n == 3


\* GetAttorneys adding the condition for every practice_area but None
GetAttorneysFilterBlank(db, practice_area) ==
    IF practice_area = None
    THEN db
    ELSE SelectSeq(db, LAMBDA a :
             \E i \in 1..Len(a.practice_areas) :
                 a.practice_areas[i].area = practice_area)

\* SELECT * FROM c [WHERE ARRAY_CONTAINS(c.practice_areas, {'area': pa}, true)]
\* The condition is added only for a truthy practice_area.
GetAttorneys(db, practice_area) ==
    IF practice_area = None \/ practice_area = ""
    THEN db
    ELSE SelectSeq(db, LAMBDA a :
             \E i \in 1..Len(a.practice_areas) :
                 a.practice_areas[i].area = practice_area)

proficiency_bonus(p) ==
    CASE p = "Expert" -> 20
      [] p = "Advanced" -> 15
      [] p = "Intermediate" -> 10
      [] p = "Beginner" -> 5
      [] OTHER -> 0

seniority_bonus(s) ==
    CASE s = "Senior Partner" -> 20
      [] s = "Partner" -> 15
      [] s = "Senior Associate" -> 10
      [] s = "Associate" -> 5
      [] OTHER -> 0

\* the loop over attorney['practice_areas']
RECURSIVE PracticeScore(_, _)
PracticeScore(pas, practice_area) ==
    IF pas = <<>> THEN 0
    ELSE (IF Head(pas).area = practice_area
          THEN 40 + proficiency_bonus(Head(pas).proficiency)
          ELSE 0) + PracticeScore(Tail(pas), practice_area)

HistoricalBonus(attorney, ids) ==
    IF attorney.attorney_id \in ids THEN 30 ELSE 0


\* ExperienceBonus without the cap of 20
ExperienceUncapped(attorney) == attorney.years_of_experience

ExperienceBonus(attorney) == Min(attorney.years_of_experience, 20)

\* the body of the scoring loop, for one attorney
Score(attorney, practice_area, ids) ==
    PracticeScore(attorney.practice_areas, practice_area)
        + seniority_bonus(attorney.seniority)
        + ExperienceBonus(attorney)
        + HistoricalBonus(attorney, ids)

ScoreAll(pool, practice_area, ids) ==
    [i \in 1..Len(pool) |->
        [attorney |-> pool[i], score |-> Score(pool[i], practice_area, ids)]]


\* InsertByScore putting a new entry before the entries of equal score
RECURSIVE InsertBeforeEqual(_, _)
InsertBeforeEqual(sorted, x) ==
    IF sorted = <<>> THEN <<x>>
    ELSE IF Head(sorted).score > x.score
         THEN <<Head(sorted)>> \o InsertBeforeEqual(Tail(sorted), x)
         ELSE <<x>> \o sorted

\* the place of x in a list sorted by score, descending: list.sort is
\* stable, and with reverse=True equal keys keep their original order
RECURSIVE InsertByScore(_, _)
InsertByScore(sorted, x) ==
    IF sorted = <<>> THEN <<x>>
    ELSE IF Head(sorted).score >= x.score
         THEN <<Head(sorted)>> \o InsertByScore(Tail(sorted), x)
         ELSE <<x>> \o sorted


\* SortByScore leaving the list in the order of the fetch
SortByScoreSkipped(scored) == scored

\* attorney_scores.sort(key=lambda x: x['score'], reverse=True)
RECURSIVE SortByScore(_)
SortByScore(scored) ==
    IF scored = <<>> THEN <<>>
    ELSE InsertByScore(SortByScore(SubSeq(scored, 1, Len(scored) - 1)),
                       scored[Len(scored)])

\* ", ".join(areas), as the sequence of its non-empty pieces: the empty
\* sequence is the empty string
RECURSIVE JoinAreas(_)
JoinAreas(areas) ==
    IF areas = <<>> THEN <<>>
    ELSE (IF Head(areas) = "" THEN <<>> ELSE <<Head(areas)>>)
         \o (IF Tail(areas) = <<>> THEN <<>> ELSE <<", ">> \o JoinAreas(Tail(areas)))


\* PracticeAreasStr without the replacement of the empty string
PracticeAreasStrNoDefault(attorney) ==
    JoinAreas([i \in 1..Len(attorney.practice_areas) |->
                  attorney.practice_areas[i].area])

PracticeAreasStr(attorney) ==
    LET joined == JoinAreas([i \in 1..Len(attorney.practice_areas) |->
                                attorney.practice_areas[i].area])
    IN  IF joined = <<>> THEN <<"General Practice">> ELSE joined

NoId == <<>>     \* attorney_id: Optional[str] = None

\* the RecommendedAttorney built for one scored attorney
Recommend(item, ids) ==
    [name |-> item.attorney.name,
     role |-> <<item.attorney.seniority, ", ">> \o PracticeAreasStr(item.attorney),
     reason |-> [text |-> "Specializes in",
                 areas |-> PracticeAreasStr(item.attorney),
                 years |-> item.attorney.years_of_experience,
                 historical |-> item.attorney.attorney_id \in ids],
     match_score |-> item.score,
     attorney_id |-> item.attorney.attorney_id,
     email |-> item.attorney.email]

\* the entry returned when the store holds no attorney
Sentinel ==
    [name |-> "General Counsel",
     role |-> <<"Partner">>,
     reason |-> [text |-> "No attorneys available in the system",
                 areas |-> <<>>, years |-> 0, historical |-> FALSE],
     match_score |-> 0,
     attorney_id |-> NoId,
     email |-> None]

\* attorney_scores[:top_n], as RecommendedAttorney objects
RecommendedList(sorted, ids) ==
    LET top_attorneys == Take(sorted, top_n)
    IN  [i \in 1..Len(top_attorneys) |-> Recommend(top_attorneys[i], ids)]

AttorneyQuery(practice_area) ==
    [container |-> "attorney_profiles", filter |-> practice_area, status |-> None]

-----------------------------------------------------------------------------
(* AISearchService: one search per collection.                             *)

top_per_index == 3

Doc(source, content) == [source |-> source, content |-> content]


\* SearchResults building the list only after the iteration has ended
SearchResultsAllOrNothing(index, top, fault) ==
    IF fault = -1 THEN Take(index, top) ELSE <<>>

\* search_internal_documents / search_historical_data: the hits of the
\* index, at most top of them, copied into results one by one; an exception
\* of the request or of the iteration is caught and results, as filled so
\* far, is returned.  fault is the number of hits copied before the
\* exception, -1 when there is none.
SearchResults(index, top, fault) ==
    LET hits == Take(index, top)
    IN  IF fault = -1 THEN hits ELSE Take(hits, fault)

SearchFaults(index, top) == -1..Len(Take(index, top))

-----------------------------------------------------------------------------
(* PublicSourceService.get_public_sources and                              *)
(* RiskAnalysisService._get_relevant_public_sources.                       *)

Source(id, risk_area, status) ==
    [news_id |-> id, title |-> <<"n", "e", "w", "s", " ", id>>,
     risk_area |-> risk_area, summary |-> "summary", jurisdiction |-> "Unknown",
     impact_level |-> "Medium", reference |-> [url |-> <<"https://", id>>],
     enrichment_status |-> status, enrichment_retry_count |-> 0]

\* SELECT * FROM c [WHERE c.risk_area = .. AND c.enrichment_status = ..]:
\* a condition is added only for a truthy argument
GetPublicSources(db, risk_area, enrichment_status) ==
    SelectSeq(db, LAMBDA src :
        /\ (risk_area = None \/ risk_area = "" \/ src.risk_area = risk_area)
        /\ (enrichment_status = None \/ enrichment_status = ""
               \/ src.enrichment_status = enrichment_status))


\* risk_area_mapping with no default for a missing key
risk_area_mappingNoDefault(practice_area) ==
    CASE practice_area = "Corporate M&A" -> <<"Corporate Governance", "Securities Law">>
      [] practice_area = "Data Privacy" -> <<"Data Protection">>
      [] practice_area = "Intellectual Property" -> <<"Intellectual Property">>
      [] practice_area = "Tax" -> <<"Tax">>
      [] practice_area = "Employment" -> <<"Employment">>
      [] practice_area = "Compliance" ->
             <<"Data Protection", "Corporate Governance", "Securities Law">>
      [] practice_area = "Securities Law" -> <<"Securities Law">>
      [] practice_area = "Banking" -> <<"Banking">>
      [] practice_area = "Real Estate" -> <<"Real Estate">>
      [] OTHER -> <<>>

\* risk_area_mapping.get(practice_area, [practice_area])
risk_area_mapping(practice_area) ==
    CASE practice_area = "Corporate M&A" -> <<"Corporate Governance", "Securities Law">>
      [] practice_area = "Data Privacy" -> <<"Data Protection">>
      [] practice_area = "Intellectual Property" -> <<"Intellectual Property">>
      [] practice_area = "Tax" -> <<"Tax">>
      [] practice_area = "Employment" -> <<"Employment">>
      [] practice_area = "Compliance" ->
             <<"Data Protection", "Corporate Governance", "Securities Law">>
      [] practice_area = "Securities Law" -> <<"Securities Law">>
      [] practice_area = "Banking" -> <<"Banking">>
      [] practice_area = "Real Estate" -> <<"Real Estate">>
      [] OTHER -> <<practice_area>>

PublicQuery(risk_area) ==
    [container |-> "public_data_sources", filter |-> risk_area,
     status |-> "completed"]

per_risk_area == 3


\* RelevantPublicSources without the status filter
RelevantSourcesAnyStatus(db, practice_area) ==
    LET risk_areas == risk_area_mapping(practice_area)
    IN  Concat([i \in 1..Len(risk_areas) |->
                   Take(GetPublicSources(db, risk_areas[i], None),
                        per_risk_area)])

\* the loop of _get_relevant_public_sources when no query raises
RelevantPublicSources(db, practice_area) ==
    LET risk_areas == risk_area_mapping(practice_area)
    IN  Concat([i \in 1..Len(risk_areas) |->
                   Take(GetPublicSources(db, risk_areas[i], "completed"),
                        per_risk_area)])

-----------------------------------------------------------------------------
(* RiskAnalysisService._build_risk_analysis_prompt.                        *)

content_budget == 2000


\* ContextSection writing the header whenever the collection has a document
ContextSectionForAnyDocument(header, docs) ==
    LET kept == SelectSeq(docs, LAMBDA d : d.content # <<>>)
        body == [i \in 1..Len(kept) |->
                    [source |-> kept[i].source,
                     content |-> Take(kept[i].content, content_budget)]]
    IN  IF docs # <<>>
        THEN [present |-> TRUE, header |-> header, body |-> body]
        ELSE [present |-> FALSE, header |-> "", body |-> <<>>]

\* one context section: the documents with non-empty content, each cut to
\* the budget; the section is the empty string when no document is left
ContextSection(header, docs) ==
    LET kept == SelectSeq(docs, LAMBDA d : d.content # <<>>)
        body == [i \in 1..Len(kept) |->
                    [source |-> kept[i].source,
                     content |-> Take(kept[i].content, content_budget)]]
    IN  IF docs # <<>> /\ body # <<>>
        THEN [present |-> TRUE, header |-> header, body |-> body]
        ELSE [present |-> FALSE, header |-> "", body |-> <<>>]

PublicSection(sources) ==
    IF sources # <<>>
    THEN [present |-> TRUE, header |-> "RECENT PUBLIC LEGAL DEVELOPMENTS:",
          body |-> [i \in 1..Len(sources) |->
                       [title |-> sources[i].title,
                        risk_area |-> sources[i].risk_area,
                        summary |-> sources[i].summary,
                        impact |-> sources[i].impact_level,
                        jurisdiction |-> sources[i].jurisdiction]]]
    ELSE [present |-> FALSE, header |-> "", body |-> <<>>]

BuildRiskAnalysisPrompt(req, rag, sources) ==
    [company |-> req.companyName,
     practice_area |-> req.practicearea,
     contact_email |-> req.companyemail,
     contact_phone |-> req.companyphonenumber,
     internal_context |->
         ContextSection("INTERNAL LEGAL KNOWLEDGE BASE:", rag.internal),
     historical_context |->
         ContextSection("HISTORICAL ENGAGEMENT DATA:", rag.historical),
     public_context |-> PublicSection(sources)]

-----------------------------------------------------------------------------
(* RiskAnalysisService._get_llm_risk_analysis.                             *)
(*                                                                         *)
(* The text of a model reply is a sequence of pieces: the fence marker, the   *)
(* word "json", white space "\n", the piece "{doc}" standing for the JSON  *)
(* document the reply carries, and other prose.  The strings inside the    *)
(* document are sequences of pieces too, so that str.replace acts on them  *)
(* as it does on the rest of the text.  A JSON value is [k, v]: its kind   *)
(* (absent, null, num, str, list) and its content.                         *)

Fence == "<fence>"     \* the marker of three backquotes
JsonWord == "json"
Ws == "\n"
DocPiece == "{doc}"

\* s.startswith(p)
StartsWith(s, p) == Len(s) >= Len(p) /\ SubSeq(s, 1, Len(p)) = p

\* s.replace(<fence>json, ""): every marker directly followed by "json"
RECURSIVE ReplaceJsonFence(_)
ReplaceJsonFence(s) ==
    IF s = <<>> THEN <<>>
    ELSE IF StartsWith(s, <<Fence, JsonWord>>)
         THEN ReplaceJsonFence(SubSeq(s, 3, Len(s)))
         ELSE <<Head(s)>> \o ReplaceJsonFence(Tail(s))

\* s.replace(<fence>, "")
ReplaceFence(s) == SelectSeq(s, LAMBDA x : x # Fence)

\* s.strip()
RECURSIVE LStrip(_)
LStrip(s) == IF s # <<>> /\ Head(s) = Ws THEN LStrip(Tail(s)) ELSE s

RECURSIVE RStrip(_)
RStrip(s) ==
    IF s # <<>> /\ s[Len(s)] = Ws THEN RStrip(SubSeq(s, 1, Len(s) - 1)) ELSE s

Strip(s) == LStrip(RStrip(s))

\* the replacements of lines 302-305 on a piece sequence; fence names the
\* branch taken
Unfence(s, fence) ==
    CASE fence = "fence_json" -> ReplaceFence(ReplaceJsonFence(s))
      [] fence = "fence" -> ReplaceFence(s)
      [] OTHER -> s

\* the same replacements reach the strings inside the document
UnfenceValue(val, fence) ==
    [k |-> val.k,
     v |-> IF val.k \in {"str", "list"}
           THEN [i \in 1..Len(val.v) |-> Unfence(val.v[i], fence)]
           ELSE val.v]

UnfenceDoc(doc, fence) ==
    [top |-> doc.top,
     risks |-> UnfenceValue(doc.risks, fence),
     confidence_score |-> doc.confidence_score,
     reasoning |-> UnfenceValue(doc.reasoning, fence)]

FallbackRisks ==
    <<<<"General compliance risk in the specified practice area requires assessment">>,
      <<"Regulatory changes may impact operations and require monitoring">>,
      <<"Documentation and reporting requirements need review">>>>


\* Fallback with the default confidence of the success path
FallbackDefaultConfidence ==
    [risks |-> [k |-> "list", v |-> FallbackRisks],
     references |-> <<>>,
     confidence |-> [k |-> "num", v |-> 85]]

\* the except branch
Fallback ==
    [risks |-> [k |-> "list", v |-> FallbackRisks],
     references |-> <<>>,
     confidence |-> [k |-> "num", v |-> 50]]

title_cut == 50
max_references == 5


\* BuildReferences over every public source
BuildReferencesUncut(sources) ==
    [i \in 1..Len(sources) |->
        [label |-> [risk_area |-> sources[i].risk_area,
                    title |-> Take(sources[i].title, title_cut)],
         url |-> sources[i].reference.url]]

\* references built from public_sources[:5]
BuildReferences(sources) ==
    LET top == Take(sources, max_references)
    IN  [i \in 1..Len(top) |->
            [label |-> [risk_area |-> top[i].risk_area,
                        title |-> Take(top[i].title, title_cut)],
             url |-> top[i].reference.url]]


\* GetOr without the default
GetOrNoDefault(val, default) == val

\* result.get(key, default) for a key that may be absent
GetOr(val, default) == IF val.k = "absent" THEN default ELSE val

\* the try block after the call returned text
ParseReply(reply, sources) ==
    LET raw == Strip(reply.text)
        fence == IF StartsWith(raw, <<Fence, JsonWord>>) THEN "fence_json"
                 ELSE IF StartsWith(raw, <<Fence>>) THEN "fence"
                 ELSE "none"
        text == IF fence = "none" THEN raw ELSE Strip(Unfence(raw, fence))
        result == UnfenceDoc(reply.doc, fence)
        got_risks == GetOr(result.risks, [k |-> "list", v |-> <<>>])
        got_conf == GetOr(result.confidence_score, [k |-> "num", v |-> 85])
    IN  IF text # <<DocPiece>> THEN Fallback            \* json.loads raises
        ELSE IF result.top # "object" THEN Fallback     \* no .get
        ELSE IF got_risks.k \notin {"list", "str"} THEN Fallback   \* len()
        ELSE IF got_conf.k # "num" THEN Fallback        \* format spec .2%
        ELSE [risks |-> got_risks,
              references |-> BuildReferences(sources),
              confidence |-> got_conf]

LLMRiskAnalysis(reply, sources) ==
    IF reply.throws THEN Fallback ELSE ParseReply(reply, sources)

-----------------------------------------------------------------------------
(* RiskAnalysisService._find_matching_attorneys, as a function of the      *)
(* store and of which attorney query raises (0: none, 1: the filtered      *)
(* query, 2: the unfiltered one).                                          *)


\* EmptyPoolResult without the sentinel entry
EmptyPoolNoSentinel == <<>>

EmptyPoolResult == <<Sentinel>>

AttorneyFaults(db, practice_area) ==
    {0, 1} \cup (IF GetAttorneys(db, practice_area) = <<>> THEN {2} ELSE {})

FindMatchingAttorneysResult(practice_area, rag, db, fault) ==
    LET first == GetAttorneys(db, practice_area)
        pool == IF first = <<>> THEN GetAttorneys(db, None) ELSE first
        ids == HistoricalAttorneyIds(rag)
        scored == ScoreAll(pool, practice_area, ids)
    IN  [raised |-> fault = 1 \/ (fault = 2 /\ first = <<>>),
         queries |-> IF fault = 1 \/ first # <<>>
                     THEN <<AttorneyQuery(practice_area)>>
                     ELSE <<AttorneyQuery(practice_area), AttorneyQuery(None)>>,
         scores |-> scored,
         value |-> IF pool = <<>> THEN EmptyPoolResult
                   ELSE RecommendedList(SortByScore(scored), ids)]

-----------------------------------------------------------------------------
(* RiskAnalysisService._generate_email_template.                           *)

Truthy(x) == x # None /\ x # ""

\* iteration over risks: the items of a list, the characters of a string
RiskItems(rsk) ==
    IF rsk.k = "str"
    THEN [i \in 1..Len(rsk.v[1]) |-> <<rsk.v[1][i]>>]
    ELSE rsk.v


\* ContactInfoLines writing the phone line whenever the field is not None
ContactInfoLinesBlankPhone(req) ==
    <<[label |-> "- Company: ", value |-> req.companyName]>>
    \o (IF Truthy(req.companyemail)
        THEN <<[label |-> "- Email: ", value |-> req.companyemail]>> ELSE <<>>)
    \o (IF req.companyphonenumber # None
        THEN <<[label |-> "- Phone: ", value |-> req.companyphonenumber]>> ELSE <<>>)

ContactInfoLines(req) ==
    <<[label |-> "- Company: ", value |-> req.companyName]>>
    \o (IF Truthy(req.companyemail)
        THEN <<[label |-> "- Email: ", value |-> req.companyemail]>> ELSE <<>>)
    \o (IF Truthy(req.companyphonenumber)
        THEN <<[label |-> "- Phone: ", value |-> req.companyphonenumber]>> ELSE <<>>)

GenerateEmailTemplate(req, attorney, rsk) ==
    [dear |-> attorney.name,
     company |-> req.companyName,
     practice_area |-> req.practicearea,
     risks_formatted |-> RiskItems(rsk),
     contact_info |-> ContactInfoLines(req)]

-----------------------------------------------------------------------------
(* RiskAnalysisResponse: the fields the model validates on construction.   *)

ConfidenceInRange(c) == c >= 1 /\ c <= 100


\* ValidResponse without the ge/le constraint of confidence_score
ValidResponseUnbounded(rsk, conf) == rsk.k = "list"

\* risks: List[str]; confidence_score: float = Field(..., ge=1.0, le=100.0)
ValidResponse(rsk, conf) == rsk.k = "list" /\ ConfidenceInRange(conf)

BuildResponse(req, rsk, refs, atts, email, conf) ==
    [company |-> req.companyName,
     practice_area |-> req.practicearea,
     risks |-> rsk.v,
     references |-> refs,
     recommended_attorneys |-> atts,
     email_template |-> email,
     confidence_score |-> conf]

-----------------------------------------------------------------------------
(* main.analyze_company_risk: the endpoint around analyze_company_risks.   *)
(* An answer is the status code, the body (the serialized result) and the  *)
(* detail of the HTTPException, as the pieces of its f-string.             *)

\* return result
HttpOk(result) == [status_code |-> 200, body |-> <<result>>, detail |-> <<>>]


\* HttpError letting the exception through without an answer
HttpErrorEscapes(e) == [status_code |-> 0, body |-> <<>>, detail |-> <<>>]

\* raise HTTPException(status_code=500, detail=f"Error performing risk analysis: {str(e)}")
HttpError(e) ==
    [status_code |-> 500, body |-> <<>>,
     detail |-> <<"Error performing risk analysis: ", e>>]

-----------------------------------------------------------------------------
(* Inputs.                                                                 *)

MaxPool == 4        \* attorneys in the store
MaxHistDocs == 2    \* historical documents handed to the ranking
MaxHits == 4        \* hits an index holds for the query
MaxSources == 9     \* records in the public-source store
MaxPromptDocs == 2  \* documents of one collection handed to the prompt
MaxInvocations == 3 \* invocations of analyze_company_risks, one after another
MaxCalls == 2       \* attorney-ingestion calls made in all
MaxTasks == 4       \* enrichment tasks queued in all
MaxCreated == 1     \* public sources created through the endpoint

TextId1 == <<"b", "y", " ">> \o ID1 \o <<".">>
TextOverlap == <<"A", "T", "T", "-", "0", "0", "0", "0", "0">> \o ID1
TextLong == ID2 \o <<"9">>
TextLower == <<"a", "t", "t", "-", "a", "b", "1", "2", "c", "d", "3", "4">>
TextPolicy == <<"a", "s", "k", " ">> \o ID2

HistoricalDocs ==
    {Doc("h1.txt", TextId1), Doc("h2.txt", TextOverlap), Doc("h3.txt", TextLong)}

InternalDocs == {Doc("policy.pdf", TextPolicy), Doc("blank.pdf", <<>>)}

\* a content of one character more than the prompt keeps
TextOverBudget == [i \in 1..(content_budget + 1) |-> "x"]

PromptDocs ==
    {Doc("policy.pdf", TextPolicy), Doc("blank.pdf", <<>>),
     Doc("manual.pdf", TextOverBudget)}

MasterSources ==
    <<Source("1", "Data Protection", "completed"),
      Source("2", "Data Protection", "pending"),
      Source("3", "Data Protection", "completed"),
      Source("4", "Corporate Governance", "completed"),
      Source("5", "Data Protection", "completed"),
      Source("6", "Securities Law", "failed"),
      Source("7", "Data Protection", "completed"),
      Source("8", "Securities Law", "completed"),
      Source("9", "Corporate Governance", "completed"),
      Source("10", "Tax", "completed"),
      Source("11", "Maritime", "completed")>>

\* the records of s at the positions in I, in the order of s
RECURSIVE PickFrom(_, _, _)
PickFrom(s, I, i) ==
    IF i > Len(s) THEN <<>>
    ELSE (IF i \in I THEN <<s[i]>> ELSE <<>>) \o PickFrom(s, I, i + 1)

SubLists(s) == {PickFrom(s, I, 1) : I \in SUBSET (1..Len(s))}

\* companyemail is an EmailStr or None; companyphonenumber is any string or None
Requests ==
    {[companyName |-> "Acme Manufacturing", companyemail |-> c[1],
      companyphonenumber |-> c[2], practicearea |-> pa] :
         c \in {<<None, None>>, <<"contact@acme.com", None>>,
                <<"contact@acme.com", "">>, <<"contact@acme.com", "+1-555-0100">>,
                <<None, "+1-555-0100">>},
         pa \in {"Tax", "Compliance"}}

RequestFor(practice_area) ==
    [companyName |-> "Acme Manufacturing", companyemail |-> "contact@acme.com",
     companyphonenumber |-> "+1-555-0100", practicearea |-> practice_area]

JsonDoc(top, rsk, conf, reasoning) ==
    [top |-> top, risks |-> rsk, confidence_score |-> conf, reasoning |-> reasoning]

Absent == [k |-> "absent", v |-> <<>>]
Null == [k |-> "null", v |-> <<>>]
Num(n) == [k |-> "num", v |-> n]
Str(s) == [k |-> "str", v |-> <<s>>]
List(l) == [k |-> "list", v |-> l]

TwoRisks == List(<<<<"Late filing penalties">>, <<"Transfer pricing audit">>>>)
FencedRisk == List(<<<<"Review the ", Fence, JsonWord, " export ", Fence>>>>)
Why == Str(<<"public sources only">>)

Docs ==
    {JsonDoc("object", TwoRisks, Num(c), Why) : c \in {0, 1, 90, 100, 101}}
    \cup {JsonDoc("object", Absent, Absent, Absent),
          JsonDoc("object", TwoRisks, Str(<<"high">>), Why),
          JsonDoc("object", TwoRisks, Null, Why),
          JsonDoc("object", Null, Num(90), Why),
          JsonDoc("object", Str(<<"n", "o">>), Num(90), Why),
          JsonDoc("array", Absent, Absent, Absent),
          JsonDoc("object", FencedRisk, Num(85), Why),
          JsonDoc("object", Absent, Num(90), Why),
          JsonDoc("object", TwoRisks, Absent, Why),
          JsonDoc("object", Null, Absent, Why),
          JsonDoc("object", Absent, Str(<<"high">>), Why)}

NoDoc == JsonDoc("none", Absent, Absent, Absent)

\* what the model call does: kind is what the reply is, as the caller of
\* the model would describe it; the code reads throws, text and doc only
Reply(kind, throws, text, doc) ==
    [kind |-> kind, throws |-> throws, text |-> text, doc |-> doc]

LLMReplies ==
    {Reply("throws", TRUE, <<>>, NoDoc),
     Reply("not json", FALSE, <<"I cannot help with that.">>, NoDoc),
     Reply("not json", FALSE, <<>>, NoDoc),
     Reply("not json", FALSE, <<"Here it is: ", DocPiece>>,
           JsonDoc("object", TwoRisks, Num(90), Why)),
     Reply("not json", FALSE, <<DocPiece, Ws, Fence>>,
           JsonDoc("object", TwoRisks, Num(90), Why))}
    \cup {Reply("json", FALSE, <<Ws, DocPiece, Ws>>, d) : d \in Docs}
    \cup {Reply("fenced json", FALSE, t, d) :
             t \in {<<Fence, JsonWord, Ws, DocPiece, Ws, Fence>>,
                    <<Fence, Ws, DocPiece, Ws, Fence>>},
             d \in {JsonDoc("object", TwoRisks, Num(90), Why),
                    JsonDoc("object", FencedRisk, Num(85), Why)}}

PipelinePools == {<<>>, <<Att4>>, <<Att1, Att2, Att3, Att5>>}
PipelineSources == {<<>>, MasterSources}
PipelineInternal == {<<>>, <<Doc("policy.pdf", TextPolicy), Doc("blank.pdf", <<>>)>>}
PipelineHistorical == {<<>>, <<Doc("h1.txt", TextId1), Doc("h3.txt", TextLong)>>}

-----------------------------------------------------------------------------
(* The state before a run, and the steps of analyze_company_risks.         *)

NoRequest == RequestFor("")
NoRag == [internal |-> <<>>, historical |-> <<>>]
NoFault == [internal |-> -1, historical |-> -1]
NoPrompt == BuildRiskAnalysisPrompt(NoRequest, NoRag, <<>>)
NoReply == Reply("none", FALSE, <<>>, NoDoc)
NoRisks == List(<<>>)
NoEmail == GenerateEmailTemplate(NoRequest, Sentinel, NoRisks)
NoResponse == BuildResponse(NoRequest, NoRisks, <<>>, <<>>, NoEmail, 0)
NoHttp == [status_code |-> 0, body |-> <<>>, detail |-> <<>>]

\* no invocation has been served yet
NoPrevious ==
    [served |-> FALSE, invocations |-> 0,
     responses |-> [request |-> NoRequest, searchFault |-> NoFault,
                    llm_reply |-> NoReply, queries |-> <<>>,
                    store_failed |-> FALSE],
     result |-> NoHttp]

\* the clients of the ingestion endpoints: each reaches the shared attorney
\* container through its own instance of the application
Clients == {"a", "b"}

NoAnswer == [status_code |-> 0, is_valid |-> TRUE, errors |-> <<>>, created |-> <<>>]

IdleCall ==
    [op |-> "none", pc |-> "idle", n |-> 0, raw |-> <<>>, entries |-> <<>>,
     at |-> 0, answer |-> NoAnswer]

NoCalls == [c \in Clients |-> IdleCall]

TaskIds == 1..MaxTasks

NoTask == [pc |-> "none", news_id |-> None, fetched |-> FALSE, returned |-> None]

NoTasks == [t \in TaskIds |-> NoTask]

Fresh ==
    /\ request = NoRequest
    /\ searchFault = NoFault
    /\ rag_context = NoRag
    /\ queries = <<>>
    /\ public_sources = <<>>
    /\ prompt = NoPrompt
    /\ llm_reply = NoReply
    /\ risks = NoRisks
    /\ references = <<>>
    /\ confidence = 0
    /\ attorney_scores = <<>>
    /\ attorneys = <<>>
    /\ email_template = NoEmail
    /\ response = NoResponse
    /\ error = None
    /\ http_response = NoHttp
    /\ previous = NoPrevious
    /\ calls = NoCalls
    /\ tasks = NoTasks

\* the endpoint hands a validated request to analyze_company_risks
Analyze ==
    /\ pc = "idle"
    /\ \E req \in Requests : request' = req
    /\ pc' = "search_internal"
    /\ UNCHANGED <<stores, http_response, previous, calls, tasks,
                   searchFault, rag_context, queries, public_sources,
                   prompt, llm_reply, risks, references, confidence,
                   attorney_scores, attorneys, email_template, response, error>>

SearchInternalDocuments ==
    /\ pc = "search_internal"
    /\ \E fault \in SearchFaults(internalIndex, top_per_index) :
          /\ rag_context' = [rag_context EXCEPT !.internal =
                                SearchResults(internalIndex, top_per_index, fault)]
          /\ searchFault' = [searchFault EXCEPT !.internal = fault]
    /\ pc' = "search_historical"
    /\ UNCHANGED <<stores, http_response, previous, calls, tasks,
                   request, queries, public_sources, prompt, llm_reply,
                   risks, references, confidence, attorney_scores, attorneys,
                   email_template, response, error>>

SearchHistoricalData ==
    /\ pc = "search_historical"
    /\ \E fault \in SearchFaults(historicalIndex, top_per_index) :
          /\ rag_context' = [rag_context EXCEPT !.historical =
                                SearchResults(historicalIndex, top_per_index, fault)]
          /\ searchFault' = [searchFault EXCEPT !.historical = fault]
    /\ pc' = "sources"
    /\ UNCHANGED <<stores, http_response, previous, calls, tasks,
                   request, queries, public_sources, prompt, llm_reply,
                   risks, references, confidence, attorney_scores, attorneys,
                   email_template, response, error>>

\* fault: the query of the loop that raises, 0 when none does; nothing in
\* _get_relevant_public_sources or its caller catches it
GetRelevantPublicSources ==
    /\ pc = "sources"
    /\ LET risk_areas == risk_area_mapping(request.practicearea)
       IN  \E fault \in 0..Len(risk_areas) :
              /\ queries' = queries \o
                    [i \in 1..(IF fault = 0 THEN Len(risk_areas) ELSE fault) |->
                        PublicQuery(risk_areas[i])]
              /\ IF fault = 0
                 THEN /\ public_sources' =
                            RelevantPublicSources(publicDB, request.practicearea)
                      /\ pc' = "prompt"
                      /\ error' = error
                 ELSE /\ public_sources' = public_sources
                      /\ pc' = "raised"
                      /\ error' = "CosmosHttpResponseError"
    /\ UNCHANGED <<stores, http_response, previous, calls, tasks,
                   request, searchFault, rag_context, prompt, llm_reply,
                   risks, references, confidence, attorney_scores, attorneys,
                   email_template, response>>


\* BuildPrompt not waiting for the public-source fetch
BuildPromptBeforeSources ==
    /\ pc \in {"sources", "prompt"}
    /\ prompt' = BuildRiskAnalysisPrompt(request, rag_context, public_sources)
    /\ pc' = "llm"
    /\ UNCHANGED <<stores, http_response, previous, calls, tasks, request, searchFault, rag_context,
                   queries, public_sources, llm_reply, risks, references,
                   confidence, attorney_scores, attorneys, email_template,
                   response, error>>

BuildPrompt ==
    /\ pc = "prompt"
    /\ prompt' = BuildRiskAnalysisPrompt(request, rag_context, public_sources)
    /\ pc' = "llm"
    /\ UNCHANGED <<stores, http_response, previous, calls, tasks,
                   request, searchFault, rag_context, queries,
                   public_sources, llm_reply, risks, references, confidence,
                   attorney_scores, attorneys, email_template, response, error>>


\* GetLLMRiskAnalysis letting a failure of the model call leave the run
GetLLMRiskAnalysisCancelling ==
    /\ pc = "llm"
    /\ \E reply \in LLMReplies :
          LET res == LLMRiskAnalysis(reply, public_sources)
          IN  /\ llm_reply' = reply
              /\ IF reply.throws
                 THEN /\ pc' = "raised"
                      /\ error' = "APITimeoutError"
                      /\ UNCHANGED <<risks, references, confidence>>
                 ELSE /\ pc' = "attorneys"
                      /\ error' = error
                      /\ risks' = res.risks
                      /\ references' = res.references
                      /\ confidence' = res.confidence.v
    /\ UNCHANGED <<stores, http_response, previous, calls, tasks, request, searchFault, rag_context,
                   queries, public_sources, prompt, attorney_scores, attorneys,
                   email_template, response>>

\* the call of the model and the try/except around it
GetLLMRiskAnalysis ==
    /\ pc = "llm"
    /\ \E reply \in LLMReplies :
          LET res == LLMRiskAnalysis(reply, public_sources)
          IN  /\ llm_reply' = reply
              /\ risks' = res.risks
              /\ references' = res.references
              /\ confidence' = res.confidence.v
    /\ pc' = "attorneys"
    /\ UNCHANGED <<stores, http_response, previous, calls, tasks,
                   request, searchFault, rag_context, queries,
                   public_sources, prompt, attorney_scores, attorneys,
                   email_template, response, error>>

FindMatchingAttorneys ==
    /\ pc = "attorneys"
    /\ \E fault \in AttorneyFaults(attorneyDB, request.practicearea) :
          LET res == FindMatchingAttorneysResult(request.practicearea, rag_context,
                                                 attorneyDB, fault)
          IN  /\ queries' = queries \o res.queries
              /\ IF res.raised
                 THEN /\ pc' = "raised"
                      /\ error' = "CosmosHttpResponseError"
                      /\ UNCHANGED <<attorney_scores, attorneys>>
                 ELSE /\ pc' = "email"
                      /\ error' = error
                      /\ attorney_scores' = res.scores
                      /\ attorneys' = res.value
    /\ UNCHANGED <<stores, http_response, previous, calls, tasks,
                   request, searchFault, rag_context, public_sources,
                   prompt, llm_reply, risks, references, confidence,
                   email_template, response>>

\* attorneys[0] raises IndexError on an empty list
GenerateEmail ==
    /\ pc = "email"
    /\ IF attorneys = <<>>
       THEN /\ pc' = "raised"
            /\ error' = "IndexError"
            /\ email_template' = email_template
       ELSE /\ pc' = "response"
            /\ error' = error
            /\ email_template' =
                   GenerateEmailTemplate(request, attorneys[1], risks)
    /\ UNCHANGED <<stores, http_response, previous, calls, tasks,
                   request, searchFault, rag_context, queries,
                   public_sources, prompt, llm_reply, risks, references,
                   confidence, attorney_scores, attorneys, response>>

\* RiskAnalysisResponse(...) validates its fields, then the value is returned
Respond ==
    /\ pc = "response"
    /\ IF ValidResponse(risks, confidence)
       THEN /\ pc' = "returned"
            /\ error' = error
            /\ response' = BuildResponse(request, risks, references, attorneys,
                                         email_template, confidence)
       ELSE /\ pc' = "raised"
            /\ error' = "ValidationError"
            /\ response' = response
    /\ UNCHANGED <<stores, http_response, previous, calls, tasks,
                   request, searchFault, rag_context, queries,
                   public_sources, prompt, llm_reply, risks, references,
                   confidence, attorney_scores, attorneys, email_template>>

\* the try/except of the endpoint, once analyze_company_risks has returned
\* or raised
AnalyzeCompanyRiskEndpoint ==
    /\ pc \in {"returned", "raised"}
    /\ http_response' = IF pc = "returned" THEN HttpOk(response)
                                          ELSE HttpError(error)
    /\ pc' = "responded"
    /\ UNCHANGED <<stores, previous, calls, tasks,
                   request, searchFault, rag_context, queries,
                   public_sources, prompt, llm_reply, risks, references,
                   confidence, attorney_scores, attorneys, email_template,
                   response, error>>

\* what the running invocation was given: its request and what each
\* collaborator answered (the faults of the searches, the queries the record
\* store answered and whether it failed, the reply of the model)
Responses ==
    [request |-> request, searchFault |-> searchFault, llm_reply |-> llm_reply,
     queries |-> queries, store_failed |-> error = "CosmosHttpResponseError"]

\* the endpoint is called again: every name of analyze_company_risks is a
\* local of the call, and the services hold nothing a call writes
Reinvoke ==
    /\ pc = "responded"
    /\ previous.invocations < MaxInvocations - 1
    /\ \E keep \in IF previous.served THEN {TRUE, FALSE} ELSE {FALSE} :
          previous' = IF keep
                      THEN [previous EXCEPT !.invocations = @ + 1]
                      ELSE [served |-> TRUE,
                            invocations |-> previous.invocations + 1,
                            responses |-> Responses,
                            result |-> http_response]
    /\ pc' = "idle"
    /\ request' = NoRequest
    /\ searchFault' = NoFault
    /\ rag_context' = NoRag
    /\ queries' = <<>>
    /\ public_sources' = <<>>
    /\ prompt' = NoPrompt
    /\ llm_reply' = NoReply
    /\ risks' = NoRisks
    /\ references' = <<>>
    /\ confidence' = 0
    /\ attorney_scores' = <<>>
    /\ attorneys' = <<>>
    /\ email_template' = NoEmail
    /\ response' = NoResponse
    /\ error' = None
    /\ http_response' = NoHttp
    /\ UNCHANGED <<stores, calls, tasks>>


-----------------------------------------------------------------------------
(* Attorney ingestion: ExcelValidator.validate_attorney_excel, the         *)
(* AttorneyCreate model, AttorneyService.create_attorney and               *)
(* bulk_create_attorneys, and their endpoints. Text the validators scan is *)
(* a sequence of characters; a cell of the sheet is what pandas read       *)
(* there: NaN, a number (Num) or a text (Str).                             *)

MAX_PRACTICE_AREAS == 10
MAX_NAME_LENGTH == 200
MAX_AREA_LENGTH == 100
MAX_YEARS_EXPERIENCE == 60

locals == <<pc, request, searchFault, rag_context, queries, public_sources,
            prompt, llm_reply, risks, references, confidence, attorney_scores,
            attorneys, email_template, response, error, http_response>>

NaN == [k |-> "nan", v |-> <<>>]

UpperLetters ==
    <<"A", "B", "C", "D", "E", "F", "G", "H", "I", "J", "K", "L", "M",
      "N", "O", "P", "Q", "R", "S", "T", "U", "V", "W", "X", "Y", "Z">>

LowerLetters ==
    <<"a", "b", "c", "d", "e", "f", "g", "h", "i", "j", "k", "l", "m",
      "n", "o", "p", "q", "r", "s", "t", "u", "v", "w", "x", "y", "z">>

DigitChars == <<"0", "1", "2", "3", "4", "5", "6", "7", "8", "9">>

\* \w of the pattern, over the characters of the inputs
WordChars == Range(UpperLetters) \cup Range(LowerLetters) \cup Range(DigitChars) \cup {"_"}

IsSpace(c) == c \in {" ", "\t", "\n"}

RECURSIVE LStripText(_)
LStripText(s) ==
    IF s # <<>> /\ IsSpace(Head(s)) THEN LStripText(Tail(s)) ELSE s

RECURSIVE RStripText(_)
RStripText(s) ==
    IF s # <<>> /\ IsSpace(s[Len(s)])
    THEN RStripText(SubSeq(s, 1, Len(s) - 1))
    ELSE s

\* str.strip()
StripText(s) == LStripText(RStripText(s))

LowerChar(c) ==
    IF \E i \in 1..Len(UpperLetters) : UpperLetters[i] = c
    THEN LowerLetters[CHOOSE i \in 1..Len(UpperLetters) : UpperLetters[i] = c]
    ELSE c

\* str.lower()
LowerText(s) == [i \in 1..Len(s) |-> LowerChar(s[i])]

\* str.replace(' ', '.')
DotSpaces(s) == [i \in 1..Len(s) |-> IF s[i] = " " THEN "." ELSE s[i]]

RECURSIVE DigitsOf(_)
DigitsOf(n) ==
    IF n < 10 THEN <<DigitChars[n + 1]>>
    ELSE DigitsOf(n \div 10) \o <<DigitChars[(n % 10) + 1]>>

\* str(cell) of a cell that is no NaN
CellStr(cell) ==
    IF cell.k = "str" THEN cell.v[1]
    ELSE IF cell.v < 0 THEN <<"-">> \o DigitsOf(0 - cell.v)
    ELSE DigitsOf(cell.v)

IsNa(cell) == cell.k = "nan"

DigitValue(c) == (CHOOSE i \in 1..Len(DigitChars) : DigitChars[i] = c) - 1

RECURSIVE Decimal(_)
Decimal(s) ==
    IF Len(s) = 1 THEN DigitValue(s[1])
    ELSE 10 * Decimal(SubSeq(s, 1, Len(s) - 1)) + DigitValue(s[Len(s)])

\* int(cell): a number as it is, a text of digits as its value; NaN and
\* any other text raise ValueError
IntOf(cell) ==
    IF cell.k = "num" THEN [ok |-> TRUE, n |-> cell.v]
    ELSE IF cell.k = "str"
            /\ StripText(cell.v[1]) # <<>>
            /\ \A i \in 1..Len(StripText(cell.v[1])) :
                  StripText(cell.v[1])[i] \in Range(DigitChars)
    THEN [ok |-> TRUE, n |-> Decimal(StripText(cell.v[1]))]
    ELSE [ok |-> FALSE, n |-> 0]

\* re.match(r'^[\w\.-]+@[\w\.-]+\.\w+$', email)
EmailMatches(s) ==
    \E a \in 2..Len(s) :
    \E d \in (a + 2)..(Len(s) - 1) :
        /\ s[a] = "@"
        /\ \A i \in 1..(a - 1) : s[i] \in WordChars \cup {".", "-"}
        /\ \A i \in (a + 1)..(d - 1) : s[i] \in WordChars \cup {".", "-"}
        /\ s[d] = "."
        /\ \A i \in (d + 1)..Len(s) : s[i] \in WordChars

Associate == <<"A", "s", "s", "o", "c", "i", "a", "t", "e">>
SeniorAssociate == <<"S", "e", "n", "i", "o", "r", " ", "A", "s", "s", "o", "c", "i",
      "a", "t", "e">>
Partner == <<"P", "a", "r", "t", "n", "e", "r">>
SeniorPartner == <<"S", "e", "n", "i", "o", "r", " ", "P", "a", "r", "t", "n", "e",
      "r">>

SENIORITY_LEVELS == <<Associate, SeniorAssociate, Partner, SeniorPartner>>

Beginner == <<"B", "e", "g", "i", "n", "n", "e", "r">>
Intermediate == <<"I", "n", "t", "e", "r", "m", "e", "d", "i", "a", "t", "e">>
Advanced == <<"A", "d", "v", "a", "n", "c", "e", "d">>
Expert == <<"E", "x", "p", "e", "r", "t">>

PROFICIENCY_LEVELS == <<Beginner, Intermediate, Advanced, Expert>>

LawFirmDomain == <<"@", "l", "a", "w", "f", "i", "r", "m", ".", "c", "o", "m">>

\* the dict seniority_map / proficiency_map: the lowercased level to the
\* level, None for any other key
LevelOfLower(levels, lower) ==
    IF \E i \in 1..Len(levels) : LowerText(levels[i]) = lower
    THEN levels[CHOOSE i \in 1..Len(levels) : LowerText(levels[i]) = lower]
    ELSE None

\* the message of a row: f"Row {idx+2}: ...", idx counting from 0
RowError(i, text) == <<"Row ", i + 1, text>>

\* the entries of practice_area_1.. of a row: an entry is skipped when its
\* area is NaN or blank, or when int() of its years raises
RECURSIVE ParsePracticeAreas(_, _, _)
ParsePracticeAreas(cells, i, years_exp) ==
    IF i > Min(MAX_PRACTICE_AREAS, Len(cells)) THEN <<>>
    ELSE LET c == cells[i]
             rest == ParsePracticeAreas(cells, i + 1, years_exp)
         IN  IF IsNa(c.area) \/ StripText(CellStr(c.area)) = <<>> THEN rest
             ELSE LET given == StripText(CellStr(c.proficiency))
                      mapped == LevelOfLower(PROFICIENCY_LEVELS, LowerText(given))
                      proficiency ==
                          IF IsNa(c.proficiency) THEN Intermediate
                          ELSE IF mapped # None THEN mapped
                          ELSE IF given \in Range(PROFICIENCY_LEVELS) THEN given
                          ELSE Intermediate
                      years == IF IsNa(c.years_in_practice)
                               THEN [ok |-> TRUE, n |-> 0]
                               ELSE IntOf(c.years_in_practice)
                  IN  IF ~years.ok THEN rest
                      ELSE <<[area |-> StripText(CellStr(c.area)),
                              proficiency |-> proficiency,
                              years_in_practice |->
                                  IF years.n > years_exp THEN years_exp
                                                         ELSE years.n]>> \o rest

\* one pass of the row loop. skipped: the pass ended in `continue`, which
\* leaves row_errors behind; row_errors is what the pass had appended
ValidateRow(row, i, columns) ==
    LET skip(text) == [skipped |-> TRUE, row_errors |-> <<RowError(i, text)>>,
                       attorney |-> <<>>]
        name == StripText(CellStr(row.name))
        given_email == "email" \in columns /\ ~IsNa(row.email)
        email == IF given_email THEN StripText(CellStr(row.email))
                 ELSE DotSpaces(LowerText(name)) \o LawFirmDomain
        given == StripText(CellStr(row.seniority))
        mapped == LevelOfLower(SENIORITY_LEVELS, LowerText(given))
        years_exp == IntOf(row.years_of_experience)
    IN  IF IsNa(row.name) \/ name = <<>> THEN skip(": Name is required")
        ELSE IF Len(name) > MAX_NAME_LENGTH
        THEN skip(": Name exceeds 200 characters")
        ELSE IF given_email /\ ~EmailMatches(email)
        THEN skip(": Invalid email format")
        ELSE IF IsNa(row.seniority) THEN skip(": Seniority is required")
        ELSE IF mapped = None /\ given \notin Range(SENIORITY_LEVELS)
        THEN skip(": Invalid seniority level")
        ELSE IF ~years_exp.ok
        THEN skip(": Invalid years_of_experience (must be a number)")
        ELSE IF years_exp.n < 0 \/ years_exp.n > MAX_YEARS_EXPERIENCE
        THEN skip(": Years of experience must be between 0 and 60")
        ELSE [skipped |-> FALSE, row_errors |-> <<>>,
              attorney |-> <<[name |-> name, email |-> email,
                              seniority |-> IF mapped # None THEN mapped ELSE given,
                              years_of_experience |-> years_exp.n,
                              practice_areas |->
                                  ParsePracticeAreas(row.areas, 1, years_exp.n)]>>]

\* the row loop: only a pass that reaches its end extends errors or
\* attorneys
RECURSIVE ValidateRows(_, _, _)
ValidateRows(rows, i, columns) ==
    IF i > Len(rows) THEN [errors |-> <<>>, attorneys |-> <<>>]
    ELSE LET pass == ValidateRow(rows[i], i, columns)
             rest == ValidateRows(rows, i + 1, columns)
         IN  IF pass.skipped THEN rest
             ELSE IF pass.row_errors # <<>>
             THEN [rest EXCEPT !.errors = pass.row_errors \o @]
             ELSE [rest EXCEPT !.attorneys = pass.attorney \o @]

required_cols == <<"name", "seniority", "years_of_experience">>

\* validate_attorney_excel: (is_valid, parsed_attorneys, error_messages)
validate_attorney_excel(sheet) ==
    IF ~sheet.readable
    THEN [is_valid |-> FALSE, attorneys |-> <<>>,
          errors |-> <<<<"Failed to read Excel file: ", "error">>>>]
    ELSE IF \E i \in 1..Len(required_cols) : required_cols[i] \notin sheet.columns
    THEN [is_valid |-> FALSE, attorneys |-> <<>>,
          errors |-> <<<<"Missing required columns: ",
                         SelectSeq(required_cols,
                                   LAMBDA col : col \notin sheet.columns)>>>>]
    ELSE LET res == ValidateRows(sheet.rows, 1, sheet.columns)
         IN  [is_valid |-> Len(res.errors) = 0, attorneys |-> res.attorneys,
              errors |-> res.errors]


\* validate_practice_areas leaving years_in_practice as given
validate_practice_areasUncapped(v, years_exp) == v

\* AttorneyCreate.validate_practice_areas, on entries that passed
\* PracticeAreaInput
validate_practice_areas(v, years_exp) ==
    [i \in 1..Len(v) |->
        IF v[i].years_in_practice > years_exp
        THEN [v[i] EXCEPT !.years_in_practice = years_exp]
        ELSE v[i]]

\* PracticeAreaInput: the proficiency validator puts Intermediate for a
\* value that is no level
PracticeAreaInput(pa) ==
    [area |-> pa.area,
     proficiency |-> IF pa.proficiency \in Range(PROFICIENCY_LEVELS)
                     THEN pa.proficiency ELSE Intermediate,
     years_in_practice |-> pa.years_in_practice]

\* AttorneyCreate(**payload): valid is whether validation passes (a payload
\* that fails is answered 422 and never reaches the endpoint), value the
\* validated object. EmailStr is decided with the pattern of the Excel
\* validator, which agrees with it on the payloads of the model.
AttorneyCreate(payload) ==
    LET mapped == LevelOfLower(SENIORITY_LEVELS, LowerText(payload.seniority))
        areas == payload.practice_areas
    IN  [valid |->
            /\ Len(payload.name) <= MAX_NAME_LENGTH
            /\ EmailMatches(payload.email)
            /\ (mapped # None \/ payload.seniority \in Range(SENIORITY_LEVELS))
            /\ payload.years_of_experience \in 0..MAX_YEARS_EXPERIENCE
            /\ Len(areas) <= MAX_PRACTICE_AREAS
            /\ \A i \in 1..Len(areas) :
                  /\ Len(areas[i].area) <= MAX_AREA_LENGTH
                  /\ areas[i].years_in_practice \in 0..60,
         value |->
            [name |-> payload.name, email |-> payload.email,
             seniority |-> IF mapped # None THEN mapped ELSE payload.seniority,
             years_of_experience |-> payload.years_of_experience,
             practice_areas |->
                 validate_practice_areas(
                     [i \in 1..Len(areas) |-> PracticeAreaInput(areas[i])],
                     payload.years_of_experience)]]

\* email_exists: SELECT * FROM c WHERE c.email = '{email}' finds something
email_exists(db, email) == \E i \in 1..Len(db) : db[i].email = email

\* f"ATT-{str(uuid.uuid4())[:8].upper()}": an id no stored attorney has
NewAttorneyId(db) == <<"ATT-", Len(db) + 1>>

\* attorney_doc of create_attorney and of bulk_create_attorneys
AttorneyDoc(id, data) ==
    [attorney_id |-> id, name |-> data.name, email |-> data.email,
     seniority |-> data.seniority,
     years_of_experience |-> data.years_of_experience,
     practice_areas |-> data.practice_areas]

CallsMade == calls["a"].n + calls["b"].n

Amy == <<"A", "m", "y", " ", "L">>
AmyMail == <<"a", "m", "y", "@", "x", ".", "i", "o">>
BenMail == <<"b", "e", "n", "@", "x", ".", "i", "o">>
TaxArea == <<"T", "a", "x">>
LongName == [i \in 1..(MAX_NAME_LENGTH + 1) |-> "n"]

Payload(name, email, seniority, years, areas) ==
    [name |-> name, email |-> email, seniority |-> seniority,
     years_of_experience |-> years, practice_areas |-> areas]

\* bodies of POST /api/v1/attorneys
CreatePayloads ==
    {Payload(Amy, AmyMail, Partner, 5,
             <<[area |-> TaxArea, proficiency |-> Expert, years_in_practice |-> 9]>>),
     Payload(Amy, AmyMail, LowerText(Associate), 10,
             <<[area |-> TaxArea, proficiency |-> LowerText(Expert),
                years_in_practice |-> 3]>>),
     Payload(Amy, BenMail, SeniorPartner, 30, <<>>),
     Payload(Amy, BenMail, <<"C", "o", "u", "n", "s", "e", "l">>, 30, <<>>),
     Payload(Amy, BenMail, Partner, 61, <<>>),
     Payload(Amy, <<"a", "m", "y">>, Partner, 5, <<>>)}

Row(name, email, seniority, years, areas) ==
    [name |-> name, email |-> email, seniority |-> seniority,
     years_of_experience |-> years, areas |-> areas]

AreaCells(area, proficiency, years) ==
    [area |-> area, proficiency |-> proficiency, years_in_practice |-> years]

GoodRow ==
    Row(Str(Amy), Str(AmyMail), Str(<<" ">> \o LowerText(Partner)), Num(5),
        <<AreaCells(Str(TaxArea), Str(LowerText(Expert)), Num(9)),
          AreaCells(NaN, NaN, NaN),
          AreaCells(Str(TaxArea), NaN, Str(<<"x">>)),
          AreaCells(Str(TaxArea), Str(<<"G", "u", "r", "u">>), NaN)>>)

GeneratedMailRow == Row(Str(Amy), NaN, Str(SeniorAssociate), Str(<<"1", "2">>), <<>>)

Sheet(readable, columns, rows) ==
    [readable |-> readable, columns |-> columns, rows |-> rows]

AllColumns == {"name", "email", "seniority", "years_of_experience"}

\* files of POST /api/v1/attorneys/bulk/excel
Sheets ==
    {Sheet(FALSE, {}, <<>>),
     Sheet(TRUE, {"name", "email"}, <<GoodRow>>),
     Sheet(TRUE, AllColumns, <<>>),
     Sheet(TRUE, AllColumns, <<GoodRow>>),
     Sheet(TRUE, AllColumns \ {"email"}, <<GoodRow>>),
     Sheet(TRUE, AllColumns, <<GoodRow, [GoodRow EXCEPT !.years_of_experience = Num(8)]>>),
     Sheet(TRUE, AllColumns, <<GeneratedMailRow, [GoodRow EXCEPT !.name = NaN]>>),
     Sheet(TRUE, AllColumns, <<[GoodRow EXCEPT !.name = Str(<<" ">>)],
                               [GoodRow EXCEPT !.name = Str(LongName)]>>),
     Sheet(TRUE, AllColumns, <<[GoodRow EXCEPT !.email = Str(<<"a", "m", "y">>)]>>),
     Sheet(TRUE, AllColumns, <<[GoodRow EXCEPT !.seniority = NaN],
                               [GoodRow EXCEPT !.seniority =
                                   Str(<<"C", "o", "u", "n", "s", "e", "l">>)]>>),
     Sheet(TRUE, AllColumns, <<[GoodRow EXCEPT !.years_of_experience = Num(61)],
                               [GoodRow EXCEPT !.years_of_experience = Num(-1)],
                               [GoodRow EXCEPT !.email = Str(BenMail)]>>),
     Sheet(TRUE, AllColumns, <<[GoodRow EXCEPT !.years_of_experience = NaN],
                               [GoodRow EXCEPT !.years_of_experience =
                                   Str(<<"t", "e", "n">>)]>>)}

\* a client may call while the calls made stay within the bound
MayCall(c) == calls[c].pc \in {"idle", "done"} /\ CallsMade < MaxCalls

Answer(status, is_valid, errors, created) ==
    [status_code |-> status, is_valid |-> is_valid, errors |-> errors,
     created |-> created]

\* POST /api/v1/attorneys up to the answer of email_exists: the ValueError
\* of create_attorney becomes a 400
CreateAttorney(c) ==
    /\ MayCall(c)
    /\ \E payload \in CreatePayloads :
          LET parsed == AttorneyCreate(payload)
              call == [op |-> "create", pc |-> "done", n |-> calls[c].n + 1,
                       raw |-> <<payload>>, entries |-> <<>>, at |-> 0,
                       answer |-> NoAnswer]
          IN  calls' = [calls EXCEPT ![c] =
                  IF ~parsed.valid
                  THEN [call EXCEPT !.answer = Answer(422, FALSE, <<>>, <<>>)]
                  ELSE IF email_exists(attorneyDB, parsed.value.email)
                  THEN [call EXCEPT !.answer =
                           Answer(400, TRUE,
                                  <<<<"Email already exists: ", parsed.value.email>>>>,
                                  <<>>)]
                  ELSE [call EXCEPT !.pc = "insert",
                                    !.entries = <<parsed.value>>, !.at = 1]]
    /\ UNCHANGED <<stores, previous, tasks, locals>>

\* create_attorney from insert_item on, and the answer of the endpoint
InsertAttorney(c) ==
    /\ calls[c].pc = "insert"
    /\ LET id == NewAttorneyId(attorneyDB)
       IN  /\ attorneyDB' = Append(attorneyDB, AttorneyDoc(id, calls[c].entries[1]))
           /\ calls' = [calls EXCEPT ![c].pc = "done",
                                     ![c].answer = Answer(200, TRUE, <<>>, <<id>>)]
    /\ UNCHANGED <<publicDB, internalIndex, historicalIndex, previous, tasks,
                   locals>>

\* the loop of bulk_create_attorneys moves to its next entry, or the
\* endpoint answers
NextEntry(call, created) ==
    IF call.at >= Len(call.entries)
    THEN [call EXCEPT !.pc = "done",
                      !.answer = Answer(200, TRUE, <<>>, created)]
    ELSE [call EXCEPT !.pc = "bulk_check", !.at = @ + 1,
                      !.answer = Answer(0, TRUE, <<>>, created)]

\* POST /api/v1/attorneys/bulk/excel up to the call of bulk_create_attorneys
UploadAttorneysExcel(c) ==
    /\ MayCall(c)
    /\ \E sheet \in Sheets :
          LET res == validate_attorney_excel(sheet)
              call == [op |-> "bulk", pc |-> "done", n |-> calls[c].n + 1,
                       raw |-> <<sheet>>, entries |-> res.attorneys, at |-> 0,
                       answer |-> Answer(0, res.is_valid, res.errors, <<>>)]
          IN  calls' = [calls EXCEPT ![c] =
                  IF ~res.is_valid
                  THEN [call EXCEPT !.answer.status_code = 400]
                  ELSE NextEntry(call, <<>>)]
    /\ UNCHANGED <<stores, previous, tasks, locals>>

\* bulk_create_attorneys asks email_exists for its entry, and skips the
\* entry on a duplicate
BulkCheckEmail(c) ==
    /\ calls[c].pc = "bulk_check"
    /\ calls' = [calls EXCEPT ![c] =
          IF email_exists(attorneyDB, calls[c].entries[calls[c].at].email)
          THEN NextEntry(calls[c], calls[c].answer.created)
          ELSE [calls[c] EXCEPT !.pc = "bulk_insert"]]
    /\ UNCHANGED <<stores, previous, tasks, locals>>

\* bulk_create_attorneys inserts its entry
BulkInsert(c) ==
    /\ calls[c].pc = "bulk_insert"
    /\ LET id == NewAttorneyId(attorneyDB)
       IN  /\ attorneyDB' =
                 Append(attorneyDB, AttorneyDoc(id, calls[c].entries[calls[c].at]))
           /\ calls' = [calls EXCEPT ![c] =
                 NextEntry(calls[c], Append(calls[c].answer.created, id))]
    /\ UNCHANGED <<publicDB, internalIndex, historicalIndex, previous, tasks,
                   locals>>


-----------------------------------------------------------------------------
(* Enrichment: PublicSourceService.create_public_source and                *)
(* update_enrichment_status, EnrichmentService.enrich_public_source, and   *)
(* the endpoints create_public_source and trigger_enrichment. A task is a  *)
(* call of enrich_public_source that BackgroundTasks runs on the event     *)
(* loop; it is suspended while it awaits fetch_url_content, and other      *)
(* tasks and endpoints run meanwhile.                                      *)

MAX_ENRICHMENT_RETRIES == 3

\* f"NEWS-{str(uuid.uuid4())[:8].upper()}": an id no stored source has
NewsIds == <<"NEWS-1", "NEWS-2", "NEWS-3", "NEWS-4">>

NewNewsId(db) == NewsIds[Len(db) + 1]

\* public_source_doc of create_public_source
NewPublicSource(id) ==
    [Source(id, None, "pending") EXCEPT !.summary = None, !.impact_level = None]

\* public_source_doc of bulk_create_public_sources for a row without
\* summary: pending, in the partition of the row's jurisdiction
SeededSource(id, jurisdiction) ==
    [Source(id, "Tax", "pending") EXCEPT !.summary = None,
                                         !.jurisdiction = jurisdiction]

\* get_public_source_by_id: the place of results[0], 0 for None
IndexOfNews(db, news_id) ==
    IF \E i \in 1..Len(db) : db[i].news_id = news_id
    THEN CHOOSE i \in 1..Len(db) :
            /\ db[i].news_id = news_id
            /\ \A j \in 1..(i - 1) : db[j].news_id # news_id
    ELSE 0

\* DatabaseService.update_item: replace_item addresses the item by its id
\* within the logical partition of partition_key (/jurisdiction), and
\* raises CosmosResourceNotFoundError when that partition holds no such id
update_item(db, item_id, partition_key, item) ==
    IF \E i \in 1..Len(db) :
          db[i].news_id = item_id /\ db[i].jurisdiction = partition_key
    THEN [raised |-> FALSE,
          db |-> [i \in 1..Len(db) |->
                     IF db[i].news_id = item_id /\ db[i].jurisdiction = partition_key
                     THEN item ELSE db[i]]]
    ELSE [raised |-> TRUE, db |-> db]

\* enrich_with_llm: the mock data, and update_data made of it
enrich_with_llm(title, url) ==
    [risk_area |-> "Data Protection", summary |-> <<"Analysis of: ", title>>,
     jurisdiction |-> "United States", impact_level |-> "Medium",
     reference |-> [url |-> url]]

\* item.update(enriched_data)
UpdatedWith(item, d) ==
    [item EXCEPT !.risk_area = d.risk_area, !.summary = d.summary,
                 !.jurisdiction = d.jurisdiction,
                 !.impact_level = d.impact_level, !.reference = d.reference]

\* update_enrichment_status: enriched_data is <<>> for None. found is the
\* value returned, raised whether update_item raised
update_enrichment_status(db, news_id, status, enriched_data) ==
    LET i == IndexOfNews(db, news_id)
    IN  IF i = 0 THEN [found |-> FALSE, raised |-> FALSE, db |-> db]
        ELSE LET with_status == [db[i] EXCEPT !.enrichment_status = status]
                 with_data == IF enriched_data # <<>>
                              THEN UpdatedWith(with_status, enriched_data[1])
                              ELSE with_status
                 item == IF status = "failed"
                         THEN [with_data EXCEPT !.enrichment_retry_count = @ + 1]
                         ELSE with_data
                 res == update_item(db, news_id, item.jurisdiction, item)
             IN  [found |-> TRUE, raised |-> res.raised, db |-> res.db]

\* background_tasks.add_task(enrichment_service.enrich_public_source, id)
HasFreeSlot == \E t \in TaskIds : tasks[t].pc = "none"

AddTask(news_id) ==
    LET t == CHOOSE t \in TaskIds :
                /\ tasks[t].pc = "none"
                /\ \A u \in 1..(t - 1) : tasks[u].pc # "none"
    IN  [tasks EXCEPT ![t] = [NoTask EXCEPT !.pc = "queued", !.news_id = news_id]]

\* POST /api/v1/public-sources
CreatePublicSource ==
    /\ HasFreeSlot
    /\ Len(publicDB) < 1 + MaxCreated
    /\ publicDB' = Append(publicDB, NewPublicSource(NewNewsId(publicDB)))
    /\ tasks' = AddTask(NewNewsId(publicDB))
    /\ UNCHANGED <<attorneyDB, internalIndex, historicalIndex, previous, calls,
                   locals>>

\* PATCH /api/v1/public-sources/{news_id}/enrich: 404 for no source,
\* "Already enriched" for a completed one, 400 at the retry limit; none of
\* these queues a task
TriggerEnrichment(news_id) ==
    /\ HasFreeSlot
    /\ LET i == IndexOfNews(publicDB, news_id)
       IN  tasks' = IF i = 0 THEN tasks
                    ELSE IF publicDB[i].enrichment_status = "completed" THEN tasks
                    ELSE IF publicDB[i].enrichment_retry_count >= MAX_ENRICHMENT_RETRIES
                    THEN tasks
                    ELSE AddTask(news_id)
    /\ UNCHANGED <<stores, previous, calls, locals>>

\* enrich_public_source up to its first await
StartEnrichment(t) ==
    /\ tasks[t].pc = "queued"
    /\ LET i == IndexOfNews(publicDB, tasks[t].news_id)
           res == update_enrichment_status(publicDB, tasks[t].news_id,
                                           "processing", <<>>)
       IN  IF i = 0 \/ publicDB[i].enrichment_retry_count >= MAX_ENRICHMENT_RETRIES
           THEN /\ tasks' = [tasks EXCEPT ![t].pc = "done", ![t].returned = "False"]
                /\ publicDB' = publicDB
           ELSE /\ tasks' = [tasks EXCEPT ![t].pc = "fetching"]
                /\ publicDB' = res.db
    /\ UNCHANGED <<attorneyDB, internalIndex, historicalIndex, previous, calls,
                   locals>>

\* enrich_public_source from the return of fetch_url_content on: fetched
\* is whether the fetch returned content. enrich_with_llm suspends nothing
\* and returns its mock data; an exception of the fetch or of the update
\* to "completed" reaches the except clause, which updates to "failed"
FinishEnrichment(t) ==
    /\ tasks[t].pc = "fetching"
    /\ \E fetched \in BOOLEAN :
          LET i == IndexOfNews(publicDB, tasks[t].news_id)
              data == enrich_with_llm(publicDB[i].title, publicDB[i].reference.url)
              done == update_enrichment_status(publicDB, tasks[t].news_id,
                                               "completed", <<data>>)
              failed == update_enrichment_status(publicDB, tasks[t].news_id,
                                                 "failed", <<>>)
          IN  IF fetched /\ ~done.raised
              THEN /\ publicDB' = done.db
                   /\ tasks' = [tasks EXCEPT ![t].pc = "done",
                                             ![t].fetched = fetched,
                                             ![t].returned = "True"]
              ELSE /\ publicDB' = failed.db
                   /\ tasks' = [tasks EXCEPT ![t].pc = "done",
                                             ![t].fetched = fetched,
                                             ![t].returned = "False"]
    /\ UNCHANGED <<attorneyDB, internalIndex, historicalIndex, previous, calls,
                   locals>>

-----------------------------------------------------------------------------
(* Specifications.                                                         *)

\* the whole pipeline, over a few stores
Init ==
    /\ attorneyDB \in PipelinePools
    /\ publicDB \in PipelineSources
    /\ internalIndex \in PipelineInternal
    /\ historicalIndex \in PipelineHistorical
    /\ pc = "idle"
    /\ Fresh

Next ==
    \/ Analyze
    \/ SearchInternalDocuments
    \/ SearchHistoricalData
    \/ GetRelevantPublicSources
    \/ BuildPrompt
    \/ GetLLMRiskAnalysis
    \/ FindMatchingAttorneys
    \/ GenerateEmail
    \/ Respond
    \/ AnalyzeCompanyRiskEndpoint

Spec == Init /\ [][Next]_vars

\* search_both_indexes, over every index content within the bound
InitSearch ==
    /\ attorneyDB = <<>>
    /\ publicDB = <<>>
    /\ internalIndex \in SeqsUpTo(InternalDocs, MaxHits)
    /\ historicalIndex \in SeqsUpTo({Doc("h1.txt", TextId1), Doc("h4.txt", TextLower)},
                                    MaxHits)
    /\ pc = "search_internal"
    /\ Fresh

NextSearch == SearchInternalDocuments \/ SearchHistoricalData

SpecSearch == InitSearch /\ [][NextSearch]_vars

\* _get_relevant_public_sources, over every store content within the bound
InitSources ==
    /\ attorneyDB = <<>>
    /\ publicDB \in SubLists(Take(MasterSources, MaxSources))
    /\ internalIndex = <<>>
    /\ historicalIndex = <<>>
    /\ pc = "sources"
    /\ \E pa \in {"Compliance", "Tax", "Maritime", "Corporate M&A",
                  "Data Protection", ""} :
          /\ request = RequestFor(pa)
          /\ searchFault = NoFault
          /\ rag_context = NoRag
          /\ queries = <<>>
          /\ public_sources = <<>>
          /\ prompt = NoPrompt
          /\ llm_reply = NoReply
          /\ risks = NoRisks
          /\ references = <<>>
          /\ confidence = 0
          /\ attorney_scores = <<>>
          /\ attorneys = <<>>
          /\ email_template = NoEmail
          /\ response = NoResponse
          /\ error = None
          /\ http_response = NoHttp
          /\ previous = NoPrevious
          /\ calls = NoCalls
          /\ tasks = NoTasks

NextSources == GetRelevantPublicSources

SpecSources == InitSources /\ [][NextSources]_vars

\* _find_matching_attorneys, over every store content and every list of
\* historical documents within the bounds
RankInputs(candidates, areas) ==
    /\ attorneyDB \in DistinctSeqs(candidates, MaxPool)
    /\ publicDB = <<>>
    /\ internalIndex = <<>>
    /\ historicalIndex = <<>>
    /\ pc = "attorneys"
    /\ \E pa \in areas :
       \E hist \in SeqsUpTo(HistoricalDocs, MaxHistDocs) :
          /\ request = RequestFor(pa)
          /\ searchFault = NoFault
          /\ rag_context = [internal |-> <<Doc("policy.pdf", TextPolicy)>>,
                            historical |-> hist]
          /\ queries = <<>>
          /\ public_sources = <<>>
          /\ prompt = NoPrompt
          /\ llm_reply = NoReply
          /\ risks = NoRisks
          /\ references = <<>>
          /\ confidence = 0
          /\ attorney_scores = <<>>
          /\ attorneys = <<>>
          /\ email_template = NoEmail
          /\ response = NoResponse
          /\ error = None
          /\ http_response = NoHttp
          /\ previous = NoPrevious
          /\ calls = NoCalls
          /\ tasks = NoTasks

InitRank == RankInputs(CandidateAttorneys, {"Tax", "Compliance", "Maritime"})

NextRank == FindMatchingAttorneys

SpecRank == InitRank /\ [][NextRank]_vars

\* the same, for requests whose practicearea may be the empty string and
\* stores that hold an entry with the empty area
InitPool == RankInputs(BlankAreaAttorneys, {"Tax", "Maritime", ""})

NextPool == FindMatchingAttorneys

SpecPool == InitPool /\ [][NextPool]_vars

\* _build_risk_analysis_prompt, over every pair of document lists within
\* the bound
InitPrompt ==
    /\ attorneyDB = <<>>
    /\ publicDB \in {<<>>, Take(MasterSources, 1), Take(MasterSources, 3)}
    /\ internalIndex \in SeqsUpTo(PromptDocs, MaxPromptDocs)
    /\ historicalIndex \in SeqsUpTo(PromptDocs, MaxPromptDocs)
    /\ pc = "prompt"
    /\ request = RequestFor("Data Protection")
    /\ searchFault = NoFault
    /\ rag_context = [internal |-> SearchResults(internalIndex, top_per_index, -1),
                      historical |-> SearchResults(historicalIndex, top_per_index, -1)]
    /\ queries = <<PublicQuery("Data Protection")>>
    /\ public_sources = RelevantPublicSources(publicDB, "Data Protection")
    /\ prompt = NoPrompt
    /\ llm_reply = NoReply
    /\ risks = NoRisks
    /\ references = <<>>
    /\ confidence = 0
    /\ attorney_scores = <<>>
    /\ attorneys = <<>>
    /\ email_template = NoEmail
    /\ response = NoResponse
    /\ error = None
    /\ http_response = NoHttp
    /\ previous = NoPrevious
    /\ calls = NoCalls
    /\ tasks = NoTasks

NextPrompt == BuildPrompt

SpecPrompt == InitPrompt /\ [][NextPrompt]_vars

\* invocations of the endpoint one after another, over one content of the
\* stores; analyze_company_risks has no suspension point, so the invocations
\* of one process run one at a time
RepeatRequests == {RequestFor("Tax"), RequestFor("Compliance")}

RepeatReplies ==
    {Reply("throws", TRUE, <<>>, NoDoc),
     Reply("json", FALSE, <<Ws, DocPiece, Ws>>,
           JsonDoc("object", TwoRisks, Num(90), Why)),
     Reply("json", FALSE, <<Ws, DocPiece, Ws>>,
           JsonDoc("object", TwoRisks, Num(101), Why))}

InitRepeat ==
    /\ attorneyDB = <<Att1, Att2, Att3, Att5>>
    /\ publicDB = MasterSources
    /\ internalIndex = <<Doc("policy.pdf", TextPolicy)>>
    /\ historicalIndex = <<Doc("h1.txt", TextId1)>>
    /\ pc = "idle"
    /\ Fresh

NextRepeat ==
    \/ Analyze /\ request' \in RepeatRequests
    \/ SearchInternalDocuments
    \/ SearchHistoricalData
    \/ GetRelevantPublicSources
    \/ BuildPrompt
    \/ GetLLMRiskAnalysis /\ llm_reply' \in RepeatReplies
    \/ FindMatchingAttorneys
    \/ GenerateEmail
    \/ Respond
    \/ AnalyzeCompanyRiskEndpoint
    \/ Reinvoke

SpecRepeat == InitRepeat /\ [][NextRepeat]_vars

\* the ingestion endpoints, called by two clients on an empty container
InitIngest ==
    /\ attorneyDB = <<>>
    /\ publicDB = <<>>
    /\ internalIndex = <<>>
    /\ historicalIndex = <<>>
    /\ pc = "idle"
    /\ Fresh

NextIngest ==
    \E c \in Clients :
        \/ CreateAttorney(c)
        \/ InsertAttorney(c)
        \/ UploadAttorneysExcel(c)
        \/ BulkCheckEmail(c)
        \/ BulkInsert(c)

SpecIngest == InitIngest /\ [][NextIngest]_vars

\* enrichment of a seeded source and of the sources the endpoint creates
InitEnrich ==
    /\ attorneyDB = <<>>
    /\ publicDB = <<SeededSource(NewsIds[1], "United States")>>
    /\ internalIndex = <<>>
    /\ historicalIndex = <<>>
    /\ pc = "idle"
    /\ Fresh

NextEnrich ==
    \/ CreatePublicSource
    \/ \E news_id \in Range(NewsIds) : TriggerEnrichment(news_id)
    \/ \E t \in TaskIds : StartEnrichment(t)
    \/ \E t \in TaskIds : FinishEnrichment(t)

SpecEnrich == InitEnrich /\ [][NextEnrich]_vars

\* the event loop runs every queued task, and fetch_url_content returns or
\* raises within its timeout
SpecEnrichFair ==
    /\ SpecEnrich
    /\ \A t \in TaskIds : WF_vars(StartEnrichment(t)) /\ WF_vars(FinishEnrichment(t))

-----------------------------------------------------------------------------
(* Properties.                                                             *)

Composed == pc \in {"response", "returned"}
Ranked == pc \in {"email", "response", "returned"}

C2_AttorneysNonEmpty ==
    /\ Ranked => Len(attorneys) >= 1
    /\ pc = "returned" => Len(response.recommended_attorneys) >= 1

\* a result is returned from an empty attorney store
C2_Witness ==
    /\ pc = "returned"
    /\ attorneyDB = <<>>
    /\ Len(queries) >= 2
    /\ queries[Len(queries)] = AttorneyQuery(None)
    /\ Len(response.recommended_attorneys) = 1
    /\ response.recommended_attorneys[1].name = "General Counsel"

\* the place of an attorney in the store, which is the order of a fetch
StorePlace(id) ==
    CHOOSE k \in 1..Len(attorneyDB) : attorneyDB[k].attorney_id = id

\* C3: the returned list is ordered by match_score, descending, and
\* attorneys of equal score keep the relative order of the fetch.
C3_SortedAndStable ==
    (Ranked /\ attorneyDB # <<>>) =>
        \A i, j \in 1..Len(attorneys) :
            i < j =>
                /\ attorneys[i].match_score >= attorneys[j].match_score
                /\ attorneys[i].match_score = attorneys[j].match_score =>
                       StorePlace(attorneys[i].attorney_id)
                           < StorePlace(attorneys[j].attorney_id)

\* three attorneys are returned and two of them have the same score
C3_Witness ==
    /\ pc = "email"
    /\ Len(attorneys) = 3
    /\ \E i, j \in 1..3 :
          i < j /\ attorneys[i].match_score = attorneys[j].match_score

\* the documented bonus tables
DocumentedProficiency ==
    [p \in {"Expert", "Advanced", "Intermediate", "Beginner"} |->
        CASE p = "Expert" -> 20 [] p = "Advanced" -> 15
          [] p = "Intermediate" -> 10 [] p = "Beginner" -> 5]

DocumentedSeniority ==
    [r \in {"Senior Partner", "Partner", "Senior Associate", "Associate"} |->
        CASE r = "Senior Partner" -> 20 [] r = "Partner" -> 15
          [] r = "Senior Associate" -> 10 [] r = "Associate" -> 5]

Lookup(table, key) == IF key \in DOMAIN table THEN table[key] ELSE 0

\* the documented score of an attorney
DocumentedScore(attorney, practice_area, ids) ==
    LET entries == attorney.practice_areas
    IN  SumSeq([i \in 1..Len(entries) |->
                   IF entries[i].area = practice_area
                   THEN 40 + Lookup(DocumentedProficiency, entries[i].proficiency)
                   ELSE 0])
        + Lookup(DocumentedSeniority, attorney.seniority)
        + (IF attorney.years_of_experience < 20
           THEN attorney.years_of_experience ELSE 20)
        + (IF attorney.attorney_id \in ids THEN 30 ELSE 0)

\* C4: every computed score is the documented sum; a Partner of 25 years
\* with one matching Expert entry and no historical match scores 95.
C4_ScoreFormula ==
    Ranked =>
        \A k \in 1..Len(attorney_scores) :
            LET a == attorney_scores[k].attorney
                ids == HistoricalAttorneyIds(rag_context)
            IN  /\ attorney_scores[k].score =
                       DocumentedScore(a, request.practicearea, ids)
                /\ (/\ a.seniority = "Partner"
                    /\ a.years_of_experience = 25
                    /\ Len(a.practice_areas) = 1
                    /\ a.practice_areas[1].area = request.practicearea
                    /\ a.practice_areas[1].proficiency = "Expert"
                    /\ a.attorney_id \notin ids)
                   => attorney_scores[k].score = 95

\* the Partner of the example is scored without a historical match, next
\* to an attorney with two matching entries
C4_Witness ==
    /\ pc = "email"
    /\ request.practicearea = "Tax"
    /\ ID1 \notin HistoricalAttorneyIds(rag_context)
    /\ \E k \in 1..Len(attorney_scores) :
          attorney_scores[k].attorney = Att1 /\ attorney_scores[k].score = 95
    /\ \E k \in 1..Len(attorney_scores) : attorney_scores[k].attorney = Att3

\* C5: when the model call throws or answers text that is not JSON, the
\* extraction yields the three fixed risks, no reference and confidence 50,
\* and the run goes on.
C5_FallbackOnFailure ==
    (llm_reply.kind \in {"throws", "not json"}) =>
        /\ risks.k = "list"
        /\ risks.v =
             <<<<"General compliance risk in the specified practice area requires assessment">>,
               <<"Regulatory changes may impact operations and require monitoring">>,
               <<"Documentation and reporting requirements need review">>>>
        /\ references = <<>>
        /\ confidence = 50
        /\ pc = "attorneys" => error = None

\* the model answered prose while public sources were at hand
C5_Witness ==
    /\ pc = "attorneys"
    /\ llm_reply.kind = "not json"
    /\ ~llm_reply.throws
    /\ public_sources # <<>>
    /\ references = <<>>

\* text holds sub as a substring
Contains(text, sub) ==
    \E i \in 1..(Len(text) - Len(sub) + 1) :
        SubSeq(text, i, i + Len(sub) - 1) = sub

\* C6: an attorney of the pool whose identifier ATT-AB12CD34 occurs in the
\* content of a historical document scores 30 more than without historical
\* documents.
C6_MentionedGetsBonus ==
    Ranked =>
        \A k \in 1..Len(attorney_scores) :
            LET a == attorney_scores[k].attorney
            IN  (/\ a.attorney_id = ID1
                 /\ \E d \in 1..Len(rag_context.historical) :
                       Contains(rag_context.historical[d].content, ID1))
                => attorney_scores[k].score =
                       Score(a, request.practicearea, {}) + 30

\* the completed records of one risk area, in store order
CompletedOf(risk_area) ==
    SelectSeq(publicDB, LAMBDA r :
        r.risk_area = risk_area /\ r.enrichment_status = "completed")

FirstThree(s) == IF Len(s) <= 3 THEN s ELSE <<s[1], s[2], s[3]>>

\* C7: for "Compliance" the run queries Data Protection, Corporate
\* Governance and Securities Law, each with status completed, and returns
\* the first three records of each, concatenated in that order.
C7_ComplianceSources ==
    (pc = "prompt" /\ request.practicearea = "Compliance") =>
        /\ queries =
             <<[container |-> "public_data_sources", filter |-> "Data Protection",
                status |-> "completed"],
               [container |-> "public_data_sources", filter |-> "Corporate Governance",
                status |-> "completed"],
               [container |-> "public_data_sources", filter |-> "Securities Law",
                status |-> "completed"]>>
        /\ public_sources =
               FirstThree(CompletedOf("Data Protection"))
                   \o FirstThree(CompletedOf("Corporate Governance"))
                   \o FirstThree(CompletedOf("Securities Law"))
        /\ Len(public_sources) <= 9

\* a store with more than three completed Data Protection records, a
\* pending one, and records of the two other areas
C7_Witness ==
    /\ pc = "prompt"
    /\ request.practicearea = "Compliance"
    /\ Len(CompletedOf("Data Protection")) > 3
    /\ \E i \in 1..Len(publicDB) :
          publicDB[i].risk_area = "Data Protection"
              /\ publicDB[i].enrichment_status = "pending"
    /\ Len(public_sources) = 6

HasLine(label) ==
    \E i \in 1..Len(email_template.contact_info) :
        email_template.contact_info[i].label = label

\* C8, as stated: the contact block has a phone line exactly when
\* companyphonenumber is present, an email line exactly when companyemail
\* is, and always the company line.
C8_LinesIffPresent ==
    Composed =>
        /\ HasLine("- Phone: ") <=> request.companyphonenumber # None
        /\ HasLine("- Email: ") <=> request.companyemail # None
        /\ HasLine("- Company: ")

\* C8, amended: the phone line is written exactly when companyphonenumber
\* is present and not the empty string; an omitted field leaves no line.
C8_LinesIffNonEmpty ==
    Composed =>
        /\ HasLine("- Phone: ") <=>
               (request.companyphonenumber # None /\ request.companyphonenumber # "")
        /\ HasLine("- Email: ") <=> request.companyemail # None
        /\ email_template.contact_info[1] =
               [label |-> "- Company: ", value |-> request.companyName]
        /\ Len(email_template.contact_info) =
               1 + (IF HasLine("- Phone: ") THEN 1 ELSE 0)
                 + (IF HasLine("- Email: ") THEN 1 ELSE 0)
        /\ \A i \in 2..Len(email_template.contact_info) :
               email_template.contact_info[i].value # ""

\* an email composed for a request without phone number, with an email
C8_Witness ==
    /\ pc = "response"
    /\ request.companyphonenumber = None
    /\ request.companyemail # None
    /\ Len(email_template.contact_info) = 2

\* C9: analyze_company_risks never raises.
C9_NeverRaises == pc # "raised"

\* what a search that failed after fault hits leaves, per the statement
ResultsAsStated(index, fault) ==
    IF fault = -1 THEN FirstThree(index) ELSE <<>>

\* what it leaves in the code: the hits copied before the failure
ResultsAsCoded(index, fault) ==
    IF fault = -1 THEN FirstThree(index)
    ELSE [i \in 1..fault |-> index[i]]

C11_RecordFetchNotFatal ==
    pc \in {"raised", "responded"} => error # "CosmosHttpResponseError"

\* analyze_company_risks has returned its result
Returned ==
    pc = "returned" \/ (pc = "responded" /\ http_response.status_code = 200)

\* the ranking of the attorneys in the store against the historical
\* documents the search returned
RankingOfStore ==
    FindMatchingAttorneysResult(request.practicearea, rag_context,
                                attorneyDB, 0).value

\* C12: a failing model call does not end the run: the fallback is taken,
\* the ranking and the email are still computed, and the result carries the
\* fallback risks with the ranking of the real store and documents.
C12_ModelFailureGoesOn ==
    llm_reply.kind = "throws" =>
        /\ pc \in {"attorneys", "email", "response", "returned", "raised",
                   "responded"}
        /\ error \in {None, "CosmosHttpResponseError"}
        /\ risks = Fallback.risks
        /\ Ranked => attorneys = RankingOfStore
        /\ Composed =>
               /\ email_template.dear = attorneys[1].name
               /\ email_template.risks_formatted = FallbackRisks
        /\ Returned =>
               /\ response.risks = FallbackRisks
               /\ response.recommended_attorneys = RankingOfStore
               /\ response.email_template = email_template

\* a result is returned after the model call failed, with three attorneys
\* ranked, the first of them named in a historical document
C12_Witness ==
    /\ pc = "returned"
    /\ llm_reply.throws
    /\ response.risks = FallbackRisks
    /\ Len(response.recommended_attorneys) = 3
    /\ response.recommended_attorneys[1].reason.historical
    /\ response.recommended_attorneys[1].match_score > 100

\* the attorneys of the store whose practice-area list holds the area
MatchingPool(area) ==
    SelectSeq(attorneyDB, LAMBDA a :
        \E i \in 1..Len(a.practice_areas) : a.practice_areas[i].area = area)

\* the attorneys that were scored, in the order they were scored
ScoredPool == [k \in 1..Len(attorney_scores) |-> attorney_scores[k].attorney]

SentinelRules ==
    /\ attorneyDB = <<>> =>
           /\ Len(attorneys) = 1
           /\ attorneys[1].name = "General Counsel"
           /\ attorneys[1].role = <<"Partner">>
           /\ attorneys[1].match_score = 0
    /\ attorneyDB # <<>> =>
           \A i \in 1..Len(attorneys) :
               /\ attorneys[i].name # "General Counsel"
               /\ \E k \in 1..Len(attorneyDB) :
                      attorneys[i].attorney_id = attorneyDB[k].attorney_id

\* C13, as stated: the scored pool is the attorneys whose practice-area
\* list holds the target area, the whole store only if there is none, and
\* the sentinel entry only if the store is empty.
C13_PoolAsStated ==
    Ranked =>
        /\ ScoredPool = IF MatchingPool(request.practicearea) # <<>>
                        THEN MatchingPool(request.practicearea)
                        ELSE attorneyDB
        /\ SentinelRules

\* C13, amended: as stated for a target area that is not the empty string;
\* for the empty string the scored pool is the whole store.
C13_PoolForNonEmptyArea ==
    Ranked =>
        /\ ScoredPool = IF request.practicearea # ""
                           /\ MatchingPool(request.practicearea) # <<>>
                        THEN MatchingPool(request.practicearea)
                        ELSE attorneyDB
        /\ SentinelRules

\* no attorney of the store has the target area, and the whole store of
\* three is scored after the two queries
C13_Witness ==
    /\ pc = "email"
    /\ request.practicearea = "Maritime"
    /\ Len(attorneyDB) = 3
    /\ MatchingPool("Maritime") = <<>>
    /\ Len(queries) = 2
    /\ ScoredPool = attorneyDB

\* the model step is over and its values are not those of the except branch
ExtractionSucceeded ==
    /\ llm_reply.kind # "none"
    /\ (risks.v # FallbackRisks \/ confidence # 50)

\* C14: when extraction succeeds the references are the first 5 public
\* sources (all of them if fewer), in their order, one label/url pair per
\* record, whatever the model answered.
C14_ReferencesFromSources ==
    ExtractionSucceeded =>
        /\ Len(references) =
               (IF Len(public_sources) < 5 THEN Len(public_sources) ELSE 5)
        /\ \A i \in 1..Len(references) :
               /\ references[i].url = public_sources[i].reference.url
               /\ references[i].label.risk_area = public_sources[i].risk_area
               /\ \A c \in 1..Len(references[i].label.title) :
                      references[i].label.title[c] = public_sources[i].title[c]
               /\ Len(references[i].label.title) =
                      (IF Len(public_sources[i].title) < 50
                       THEN Len(public_sources[i].title) ELSE 50)
               /\ DOMAIN references[i] = {"label", "url"}

\* six public sources were fetched and a fenced reply was parsed: five
\* references
C14_Witness ==
    /\ pc = "attorneys"
    /\ llm_reply.kind = "fenced json"
    /\ Len(public_sources) = 6
    /\ Len(references) = 5
    /\ references[5].url = public_sources[5].reference.url

\* the keys of the mapping table
MappedAreas ==
    {"Corporate M&A", "Data Privacy", "Intellectual Property", "Tax",
     "Employment", "Compliance", "Securities Law", "Banking", "Real Estate"}

\* the completed records of the store, whatever their risk area
Completed == SelectSeq(publicDB, LAMBDA r : r.enrichment_status = "completed")

OneQueryFor(area) ==
    queries = <<[container |-> "public_data_sources", filter |-> area,
                 status |-> "completed"]>>

\* C15, as stated: for a practice area outside the table one query is
\* issued, filtered on the practice-area string and on status completed,
\* and its first 3 records are returned.
C15_UnmappedAsStated ==
    (pc = "prompt" /\ request.practicearea \notin MappedAreas) =>
        /\ OneQueryFor(request.practicearea)
        /\ public_sources = FirstThree(CompletedOf(request.practicearea))

\* C15, amended: as stated for a practice area that is not the empty
\* string; for the empty string the one query has no risk-area condition
\* and returns the first 3 completed records of the store.
C15_UnmappedNonEmpty ==
    (pc = "prompt" /\ request.practicearea \notin MappedAreas) =>
        /\ OneQueryFor(request.practicearea)
        /\ public_sources =
               IF request.practicearea = ""
               THEN FirstThree(Completed)
               ELSE FirstThree(CompletedOf(request.practicearea))

\* the practice area Data Protection is no key of the table: of its four
\* completed records three are returned
C15_Witness ==
    /\ pc = "prompt"
    /\ request.practicearea = "Data Protection"
    /\ Len(CompletedOf("Data Protection")) = 4
    /\ Len(publicDB) > 5
    /\ Len(queries) = 1
    /\ Len(public_sources) = 3

\* C16: the endpoint answers every exception of the pipeline with status
\* 500 and a detail that names it, lets none through, and answers a run
\* that raised nothing with the result of the pipeline, unchanged.
C16_EndpointMapsErrors ==
    pc = "responded" =>
        /\ http_response.status_code \in {200, 500}
        /\ error # None =>
               /\ http_response.status_code = 500
               /\ http_response.detail =
                      <<"Error performing risk analysis: ", error>>
               /\ http_response.body = <<>>
        /\ error = None =>
               /\ http_response.status_code = 200
               /\ http_response.body = <<response>>
               /\ response =
                      [company |-> request.companyName,
                       practice_area |-> request.practicearea,
                       risks |-> risks.v,
                       references |-> references,
                       recommended_attorneys |-> attorneys,
                       email_template |-> email_template,
                       confidence_score |-> confidence]

\* the endpoint has answered a run in which the response object refused a
\* confidence of 101
C16_Witness ==
    /\ pc = "responded"
    /\ error = "ValidationError"
    /\ confidence = 101
    /\ http_response.status_code = 500

\* the run moves to position to only from position from
Follows(to, from) == (pc' = to /\ pc # to) => pc = from

\* C17: the steps of a run are ordered: the two searches, then the
\* public-source fetch, then the prompt, built from their results; the
\* model is called only with the prompt built; the email is composed only
\* with the risks and the ranking at hand.
C17_StepOrder ==
    [][/\ Follows("search_historical", "search_internal")
       /\ Follows("sources", "search_historical")
       /\ Follows("prompt", "sources")
       /\ Follows("llm", "prompt")
       /\ Follows("attorneys", "llm")
       /\ Follows("email", "attorneys")
       /\ Follows("response", "email")
       /\ rag_context' # rag_context =>
              pc \in {"search_internal", "search_historical"}
       /\ public_sources' # public_sources => pc = "sources"
       /\ prompt' # prompt =>
              /\ pc = "prompt"
              /\ prompt' = BuildRiskAnalysisPrompt(request, rag_context,
                                                   public_sources)
       /\ llm_reply' # llm_reply =>
              /\ pc = "llm"
              /\ prompt = BuildRiskAnalysisPrompt(request, rag_context,
                                                  public_sources)
       /\ attorneys' # attorneys => pc = "attorneys" /\ llm_reply.kind # "none"
       /\ email_template' # email_template =>
              /\ pc = "email"
              /\ llm_reply.kind # "none"
              /\ attorneys # <<>>
              /\ email_template'.risks_formatted = RiskItems(risks)
              /\ email_template'.dear = attorneys[1].name
      ]_vars

\* a run has composed its email from documents of both collections, public
\* sources, risks of the model and a ranking of the store
C17_Witness ==
    /\ pc = "response"
    /\ Len(rag_context.internal) = 2
    /\ Len(rag_context.historical) = 2
    /\ Len(public_sources) = 6
    /\ prompt.internal_context.present
    /\ prompt.historical_context.present
    /\ prompt.public_context.present
    /\ llm_reply.kind = "json"
    /\ risks = TwoRisks
    /\ Len(attorneys) = 2
    /\ email_template.dear = attorneys[1].name

\* t is "ATT-" followed by 8 upper-case letters or digits
IsIdentifier(t) ==
    /\ Len(t) = 12
    /\ <<t[1], t[2], t[3], t[4]>> = <<"A", "T", "T", "-">>
    /\ \A k \in 5..12 : t[k] \in UpperAlnum

\* the identifiers in text that are followed by no further upper-case
\* letter or digit: "ATT-" and exactly 8 such characters
ExactIdentifiers(text) ==
    {SubSeq(text, i, i + 11) :
        i \in {j \in 1..(Len(text) - 11) :
                  /\ IsIdentifier(SubSeq(text, j, j + 11))
                  /\ (j + 12 <= Len(text) => text[j + 12] \notin UpperAlnum)}}

StatedMatchSet ==
    UNION {ExactIdentifiers(rag_context.historical[d].content) :
              d \in 1..Len(rag_context.historical)}

\* C18: the historical-match set is the set of identifiers of exactly 8
\* characters after "ATT-" in the historical documents: no identifier of an
\* internal document, and no 8-character prefix of a longer token; the
\* attorneys with the bonus are those of that set.
C18_ExactlyEightCharacters ==
    (Ranked /\ attorneyDB # <<>>) =>
        /\ HistoricalAttorneyIds(rag_context) = StatedMatchSet
        /\ \A k \in 1..Len(attorney_scores) :
               LET a == attorney_scores[k].attorney
               IN  attorney_scores[k].score # Score(a, request.practicearea, {})
                       <=> a.attorney_id \in StatedMatchSet

\* the attorney of the store that a recommendation is about
AttorneyOf(rec) ==
    attorneyDB[CHOOSE k \in 1..Len(attorneyDB) :
                   attorneyDB[k].attorney_id = rec.attorney_id]

BonusApplied(rec) ==
    rec.match_score = Score(AttorneyOf(rec), request.practicearea, {}) + 30

NamesGeneralPractice(rec) == rec.reason.areas = <<"General Practice">>

WithContent(docs) == SelectSeq(docs, LAMBDA d : Len(d.content) > 0)

\* what the claim says of one context section of the prompt
SectionAsStated(section, header, docs) ==
    /\ section.present <=> \E d \in 1..Len(docs) : Len(docs[d].content) > 0
    /\ section.present =>
           /\ section.header = header
           /\ Len(section.body) = Len(WithContent(docs))
           /\ Len(section.body) > 0
           /\ \A i \in 1..Len(section.body) :
                  LET whole == WithContent(docs)[i].content
                      cut == section.body[i].content
                  IN  /\ section.body[i].source = WithContent(docs)[i].source
                      /\ Len(cut) = (IF Len(whole) < 2000 THEN Len(whole) ELSE 2000)
                      /\ cut = SubSeq(whole, 1, Len(cut))
    /\ ~section.present => section.header = "" /\ section.body = <<>>

\* C20: in the prompt a context section is present exactly when a
\* document of its collection has content; it leaves out the documents
\* without content and cuts each content to 2000 characters; the public
\* section is present exactly when there are public sources; no header
\* stands over an empty body.
C20_SectionsOnlyWithContent ==
    pc = "llm" =>
        /\ SectionAsStated(prompt.internal_context,
                           "INTERNAL LEGAL KNOWLEDGE BASE:", rag_context.internal)
        /\ SectionAsStated(prompt.historical_context,
                           "HISTORICAL ENGAGEMENT DATA:", rag_context.historical)
        /\ prompt.public_context.present <=> Len(public_sources) > 0
        /\ Len(prompt.public_context.body) = Len(public_sources)
        /\ ~prompt.public_context.present => prompt.public_context.header = ""

\* a prompt built from an internal document without content and one over
\* the budget, a historical document without content, and public sources
C20_Witness ==
    /\ pc = "llm"
    /\ Len(rag_context.internal) = 2
    /\ rag_context.internal[1].content = <<>>
    /\ Len(rag_context.internal[2].content) = 2001
    /\ prompt.internal_context.present
    /\ Len(prompt.internal_context.body) = 1
    /\ Len(prompt.internal_context.body[1].content) = 2000
    /\ Len(rag_context.historical) = 1
    /\ ~prompt.historical_context.present
    /\ prompt.public_context.present

\* the reply parsed as a JSON object
ParsedObject ==
    llm_reply.kind \in {"json", "fenced json"} /\ llm_reply.doc.top = "object"

FirstFiveReferences ==
    [i \in 1..(IF Len(public_sources) < 5 THEN Len(public_sources) ELSE 5) |->
        [label |-> [risk_area |-> public_sources[i].risk_area,
                    title |-> public_sources[i].title],
         url |-> public_sources[i].reference.url]]

\* reasoning is in no component of the tuple and in no field of the result
ReasoningDropped ==
    /\ \A i \in 1..Len(risks.v) : <<risks.v[i]>> # llm_reply.doc.reasoning.v
    /\ Returned =>
           /\ DOMAIN response =
                  {"company", "practice_area", "risks", "references",
                   "recommended_attorneys", "email_template", "confidence_score"}
           /\ \A i \in 1..Len(response.risks) :
                  <<response.risks[i]>> # llm_reply.doc.reasoning.v

BareResult ==
    LLMRiskAnalysis(Reply("json", FALSE, <<DocPiece>>, llm_reply.doc),
                    public_sources)

\* C22: a JSON text between a leading and a trailing fence marker gives
\* the risks, references and confidence of the JSON text alone, also when
\* a string of it holds the marker.
C22_FencedSameAsBare ==
    llm_reply.kind = "fenced json" =>
        /\ risks = BareResult.risks
        /\ references = BareResult.references
        /\ confidence = BareResult.confidence.v

\* the identifiers of the recommended attorneys
RecommendedIds == {attorneys[i].attorney_id : i \in 1..Len(attorneys)}

\* C23: from a pool that is not empty the ranking returns min(3, size of
\* the pool) entries, each another member of the pool, and no member left
\* out scores more than one that is returned.
C23_TopOfThePool ==
    (Ranked /\ attorneyDB # <<>>) =>
        /\ Len(attorneys) =
               (IF Len(attorney_scores) < 3 THEN Len(attorney_scores) ELSE 3)
        /\ Cardinality(RecommendedIds) = Len(attorneys)
        /\ \A i \in 1..Len(attorneys) :
               \E k \in 1..Len(attorney_scores) :
                   /\ attorney_scores[k].attorney.attorney_id = attorneys[i].attorney_id
                   /\ attorney_scores[k].score = attorneys[i].match_score
        /\ \A k \in 1..Len(attorney_scores) :
               attorney_scores[k].attorney.attorney_id \notin RecommendedIds =>
                   \A i \in 1..Len(attorneys) :
                       attorney_scores[k].score <= attorneys[i].match_score

\* of a pool of four the first of the fetch is left out, with the lowest
\* score
C23_Witness ==
    /\ pc = "email"
    /\ Len(attorney_scores) = 4
    /\ Len(attorneys) = 3
    /\ attorney_scores[1].attorney.attorney_id \notin RecommendedIds
    /\ \A i \in 1..3 : attorney_scores[1].score < attorneys[i].match_score

\* the running invocation has answered, and it was given what the earlier
\* invocation that `previous` holds was given
SameResponsesAsPrevious ==
    /\ pc = "responded"
    /\ previous.served
    /\ Responses = previous.responses

SheetOf(c) == calls[c].raw[1]

\* a bulk upload whose sheet validate_attorney_excel has read, finding its
\* required columns

RowsValidated(c) ==
    /\ calls[c].op = "bulk"
    /\ SheetOf(c).readable
    /\ Range(required_cols) \subseteq SheetOf(c).columns

\* the rows with a missing or over-long name, an invalid email format, a
\* missing or unrecognized seniority, or years_of_experience that is no
\* number or outside 0..60
InvalidRows(sheet) ==
    {i \in 1..Len(sheet.rows) : ValidateRow(sheet.rows[i], i, sheet.columns).skipped}

\* C25: validate_attorney_excel reports every invalid row: the error list
\* holds a message for the row and is_valid is False, so the bulk-upload
\* endpoint answers 400 and creates nothing
C25_InvalidRowsReported ==
    \A c \in Clients :
        RowsValidated(c) =>
            \A i \in InvalidRows(SheetOf(c)) :
                /\ ~calls[c].answer.is_valid
                /\ \E m \in Range(calls[c].answer.errors) : m = <<"Row ", i + 1, m[3]>>
                /\ calls[c].answer.status_code = 400
                /\ calls[c].answer.created = <<>>

\* every stored attorney's entries have years_in_practice within the
\* attorney's years_of_experience
YearsWithinExperience(db) ==
    \A i \in 1..Len(db) :
    \A j \in 1..Len(db[i].practice_areas) :
        db[i].practice_areas[j].years_in_practice <= db[i].years_of_experience

\* C26: after any sequence of attorney ingestions, every stored attorney's
\* practice-area entry has years_in_practice <= that attorney's
\* years_of_experience: a larger value is capped, not rejected
C26_YearsCapped == YearsWithinExperience(attorneyDB)

\* the attorney the call created first is stored with as many years in
\* its first entry as it has years of experience
StoredCapped(c) ==
    /\ calls[c].pc = "done"
    /\ calls[c].answer.status_code = 200
    /\ Len(calls[c].answer.created) = 1
    /\ \E i \in 1..Len(attorneyDB) :
          /\ attorneyDB[i].attorney_id = calls[c].answer.created[1]
          /\ Len(attorneyDB[i].practice_areas) > 0
          /\ attorneyDB[i].practice_areas[1].years_in_practice =
                 attorneyDB[i].years_of_experience

\* a payload and a row that give 9 years in practice and 5 years of
\* experience have both been stored, with 5 and 5
C26_Witness ==
    /\ calls["a"].op = "create"
    /\ StoredCapped("a")
    /\ SheetOf("a").practice_areas[1].years_in_practice
           > SheetOf("a").years_of_experience
    /\ calls["b"].op = "bulk"
    /\ StoredCapped("b")
    /\ SheetOf("b").rows[1].areas[1].years_in_practice.v
           > SheetOf("b").rows[1].years_of_experience.v

\* C27: no two stored attorneys share an email, after any sequence of
\* create_attorney and bulk_create_attorneys calls, interleaved ones
\* included; a call on an existing email stores nothing
C27_EmailsDistinct ==
    \A i, j \in 1..Len(attorneyDB) :
        attorneyDB[i].email = attorneyDB[j].email => i = j

\* C28: for every public source, enrichment_retry_count never exceeds
\* MAX_ENRICHMENT_RETRIES, also when several tasks for the same source are
\* queued and interleave at their suspension points
C28_RetryCountWithinLimit ==
    \A i \in 1..Len(publicDB) :
        publicDB[i].enrichment_retry_count <= MAX_ENRICHMENT_RETRIES

\* task t ends a run that had moved its source, the i-th, to "processing"
RunEnds(t, i) ==
    /\ tasks[t].pc = "fetching"
    /\ tasks'[t].pc = "done"
    /\ i = IndexOfNews(publicDB, tasks[t].news_id)

\* the run leaves "failed" and one more retry when the fetch or the
\* enrichment step failed, "completed" and the same count otherwise
LeftAsStated(t, i) ==
    IF tasks'[t].fetched
    THEN /\ publicDB'[i].enrichment_status = "completed"
         /\ publicDB'[i].enrichment_retry_count = publicDB[i].enrichment_retry_count
    ELSE /\ publicDB'[i].enrichment_status = "failed"
         /\ publicDB'[i].enrichment_retry_count =
                publicDB[i].enrichment_retry_count + 1

\* a source in "processing" has a run that has not returned yet
ProcessingHasRun ==
    \A i \in 1..Len(publicDB) :
        publicDB[i].enrichment_status = "processing" =>
            \E t \in TaskIds : /\ tasks[t].pc = "fetching"
                               /\ tasks[t].news_id = publicDB[i].news_id

\* C29: every enrichment run that moves a source to "processing" ends, and
\* leaves it "failed" with one more retry when the fetch or the enrichment
\* step failed and "completed" with the same count otherwise; no source
\* stays in "processing" after its run has returned
C29_RunsEndAsStated ==
    /\ \A t \in TaskIds : (tasks[t].pc = "fetching") ~> (tasks[t].pc = "done")
    /\ [][\A t \in TaskIds : \A i \in 1..Len(publicDB) :
             RunEnds(t, i) => LeftAsStated(t, i)]_vars
    /\ []ProcessingHasRun

\* C30: a public source with enrichment_status "completed" keeps that
\* status: no later step of any enrichment task moves it back to
\* "processing" or to "failed"
C30_CompletedStays ==
    [][\A i \in 1..Len(publicDB) :
          publicDB[i].enrichment_status = "completed" =>
              publicDB'[i].enrichment_status = "completed"]_vars

=============================================================================
